---- MODULE Spec2Model ----
(***************************************************************************)
(* Model of botaffiumeiro.py: the link-processing pipeline of the bot      *)
(* (URL extraction, per-vendor handlers, dispatcher, shortener, composer,  *)
(* exclusion filter) together with the background configuration reload.    *)
(*                                                                         *)
(* Text is modelled character by character: a Python str is a sequence of  *)
(* one-character strings, so that substring tests, regular expressions and *)
(* f-string concatenation are computed as the code computes them.  A       *)
(* non-ASCII code point is written as one element named after it, e.g.     *)
(* "U+1F517" for the link emoji.  The alphabet of the model is ASCII, the  *)
(* code points U+0080 to U+07FF, the halfwidth and fullwidth forms U+FF00  *)
(* to U+FFEF, the decimal digits of every script and the emoji of the      *)
(* replies.  A Python value that may be None is modelled as a sequence of  *)
(* length at most one: None is << >> and a present value x is << x >>.     *)
(***************************************************************************)
EXTENDS Integers, Sequences, FiniteSets, TLC

\* ------------------------------------------------------------------------
\* Python values
\* ------------------------------------------------------------------------
None == << >>

Some(x) == << x >>

\* str(x) as an f-string renders it: None is rendered as the text "None"
PyStr(o) == IF o = None THEN <<"N","o","n","e">> ELSE o[1]

\* truthiness of an optional str: None and "" are falsy
Truthy(o) == o # None /\ o[1] # << >>

\* `needle in s` for two str values
IsPrefixAt(p, s, i) ==
    /\ i >= 1
    /\ i + Len(p) - 1 <= Len(s)
    /\ \A k \in 1..Len(p) : s[i + k - 1] = p[k]

Contains(s, p) == \E i \in 1..(Len(s) - Len(p) + 1) : IsPrefixAt(p, s, i)

EndsWith(s, p) == Len(p) <= Len(s) /\ IsPrefixAt(p, s, Len(s) - Len(p) + 1)

\* ------------------------------------------------------------------------
\* Character classes of the regular expressions
\* ------------------------------------------------------------------------
\* 0-9 as a class written out in a pattern ([A-Z0-9], line 127)
AsciiDigits == {"0","1","2","3","4","5","6","7","8","9"}

\* the decimal digits outside ASCII (general category Nd): the patterns are
\* str patterns compiled without re.ASCII, so \d matches them too
UnicodeDigits ==
    { "U+0660", "U+0661", "U+0662", "U+0663", "U+0664", "U+0665", "U+0666", "U+0667", "U+0668", "U+0669",
      "U+06F0", "U+06F1", "U+06F2", "U+06F3", "U+06F4", "U+06F5", "U+06F6", "U+06F7", "U+06F8", "U+06F9",
      "U+07C0", "U+07C1", "U+07C2", "U+07C3", "U+07C4", "U+07C5", "U+07C6", "U+07C7", "U+07C8", "U+07C9",
      "U+0966", "U+0967", "U+0968", "U+0969", "U+096A", "U+096B", "U+096C", "U+096D", "U+096E", "U+096F",
      "U+09E6", "U+09E7", "U+09E8", "U+09E9", "U+09EA", "U+09EB", "U+09EC", "U+09ED", "U+09EE", "U+09EF",
      "U+0A66", "U+0A67", "U+0A68", "U+0A69", "U+0A6A", "U+0A6B", "U+0A6C", "U+0A6D", "U+0A6E", "U+0A6F",
      "U+0AE6", "U+0AE7", "U+0AE8", "U+0AE9", "U+0AEA", "U+0AEB", "U+0AEC", "U+0AED", "U+0AEE", "U+0AEF",
      "U+0B66", "U+0B67", "U+0B68", "U+0B69", "U+0B6A", "U+0B6B", "U+0B6C", "U+0B6D", "U+0B6E", "U+0B6F",
      "U+0BE6", "U+0BE7", "U+0BE8", "U+0BE9", "U+0BEA", "U+0BEB", "U+0BEC", "U+0BED", "U+0BEE", "U+0BEF",
      "U+0C66", "U+0C67", "U+0C68", "U+0C69", "U+0C6A", "U+0C6B", "U+0C6C", "U+0C6D", "U+0C6E", "U+0C6F",
      "U+0CE6", "U+0CE7", "U+0CE8", "U+0CE9", "U+0CEA", "U+0CEB", "U+0CEC", "U+0CED", "U+0CEE", "U+0CEF",
      "U+0D66", "U+0D67", "U+0D68", "U+0D69", "U+0D6A", "U+0D6B", "U+0D6C", "U+0D6D", "U+0D6E", "U+0D6F",
      "U+0DE6", "U+0DE7", "U+0DE8", "U+0DE9", "U+0DEA", "U+0DEB", "U+0DEC", "U+0DED", "U+0DEE", "U+0DEF",
      "U+0E50", "U+0E51", "U+0E52", "U+0E53", "U+0E54", "U+0E55", "U+0E56", "U+0E57", "U+0E58", "U+0E59",
      "U+0ED0", "U+0ED1", "U+0ED2", "U+0ED3", "U+0ED4", "U+0ED5", "U+0ED6", "U+0ED7", "U+0ED8", "U+0ED9",
      "U+0F20", "U+0F21", "U+0F22", "U+0F23", "U+0F24", "U+0F25", "U+0F26", "U+0F27", "U+0F28", "U+0F29",
      "U+1040", "U+1041", "U+1042", "U+1043", "U+1044", "U+1045", "U+1046", "U+1047", "U+1048", "U+1049",
      "U+1090", "U+1091", "U+1092", "U+1093", "U+1094", "U+1095", "U+1096", "U+1097", "U+1098", "U+1099",
      "U+17E0", "U+17E1", "U+17E2", "U+17E3", "U+17E4", "U+17E5", "U+17E6", "U+17E7", "U+17E8", "U+17E9",
      "U+1810", "U+1811", "U+1812", "U+1813", "U+1814", "U+1815", "U+1816", "U+1817", "U+1818", "U+1819",
      "U+1946", "U+1947", "U+1948", "U+1949", "U+194A", "U+194B", "U+194C", "U+194D", "U+194E", "U+194F",
      "U+19D0", "U+19D1", "U+19D2", "U+19D3", "U+19D4", "U+19D5", "U+19D6", "U+19D7", "U+19D8", "U+19D9",
      "U+1A80", "U+1A81", "U+1A82", "U+1A83", "U+1A84", "U+1A85", "U+1A86", "U+1A87", "U+1A88", "U+1A89",
      "U+1A90", "U+1A91", "U+1A92", "U+1A93", "U+1A94", "U+1A95", "U+1A96", "U+1A97", "U+1A98", "U+1A99",
      "U+1B50", "U+1B51", "U+1B52", "U+1B53", "U+1B54", "U+1B55", "U+1B56", "U+1B57", "U+1B58", "U+1B59",
      "U+1BB0", "U+1BB1", "U+1BB2", "U+1BB3", "U+1BB4", "U+1BB5", "U+1BB6", "U+1BB7", "U+1BB8", "U+1BB9",
      "U+1C40", "U+1C41", "U+1C42", "U+1C43", "U+1C44", "U+1C45", "U+1C46", "U+1C47", "U+1C48", "U+1C49",
      "U+1C50", "U+1C51", "U+1C52", "U+1C53", "U+1C54", "U+1C55", "U+1C56", "U+1C57", "U+1C58", "U+1C59",
      "U+A620", "U+A621", "U+A622", "U+A623", "U+A624", "U+A625", "U+A626", "U+A627", "U+A628", "U+A629",
      "U+A8D0", "U+A8D1", "U+A8D2", "U+A8D3", "U+A8D4", "U+A8D5", "U+A8D6", "U+A8D7", "U+A8D8", "U+A8D9",
      "U+A900", "U+A901", "U+A902", "U+A903", "U+A904", "U+A905", "U+A906", "U+A907", "U+A908", "U+A909",
      "U+A9D0", "U+A9D1", "U+A9D2", "U+A9D3", "U+A9D4", "U+A9D5", "U+A9D6", "U+A9D7", "U+A9D8", "U+A9D9",
      "U+A9F0", "U+A9F1", "U+A9F2", "U+A9F3", "U+A9F4", "U+A9F5", "U+A9F6", "U+A9F7", "U+A9F8", "U+A9F9",
      "U+AA50", "U+AA51", "U+AA52", "U+AA53", "U+AA54", "U+AA55", "U+AA56", "U+AA57", "U+AA58", "U+AA59",
      "U+ABF0", "U+ABF1", "U+ABF2", "U+ABF3", "U+ABF4", "U+ABF5", "U+ABF6", "U+ABF7", "U+ABF8", "U+ABF9",
      "U+FF10", "U+FF11", "U+FF12", "U+FF13", "U+FF14", "U+FF15", "U+FF16", "U+FF17", "U+FF18", "U+FF19",
      "U+104A0", "U+104A1", "U+104A2", "U+104A3", "U+104A4", "U+104A5", "U+104A6", "U+104A7", "U+104A8", "U+104A9",
      "U+10D30", "U+10D31", "U+10D32", "U+10D33", "U+10D34", "U+10D35", "U+10D36", "U+10D37", "U+10D38", "U+10D39",
      "U+11066", "U+11067", "U+11068", "U+11069", "U+1106A", "U+1106B", "U+1106C", "U+1106D", "U+1106E", "U+1106F",
      "U+110F0", "U+110F1", "U+110F2", "U+110F3", "U+110F4", "U+110F5", "U+110F6", "U+110F7", "U+110F8", "U+110F9",
      "U+11136", "U+11137", "U+11138", "U+11139", "U+1113A", "U+1113B", "U+1113C", "U+1113D", "U+1113E", "U+1113F",
      "U+111D0", "U+111D1", "U+111D2", "U+111D3", "U+111D4", "U+111D5", "U+111D6", "U+111D7", "U+111D8", "U+111D9",
      "U+112F0", "U+112F1", "U+112F2", "U+112F3", "U+112F4", "U+112F5", "U+112F6", "U+112F7", "U+112F8", "U+112F9",
      "U+11450", "U+11451", "U+11452", "U+11453", "U+11454", "U+11455", "U+11456", "U+11457", "U+11458", "U+11459",
      "U+114D0", "U+114D1", "U+114D2", "U+114D3", "U+114D4", "U+114D5", "U+114D6", "U+114D7", "U+114D8", "U+114D9",
      "U+11650", "U+11651", "U+11652", "U+11653", "U+11654", "U+11655", "U+11656", "U+11657", "U+11658", "U+11659",
      "U+116C0", "U+116C1", "U+116C2", "U+116C3", "U+116C4", "U+116C5", "U+116C6", "U+116C7", "U+116C8", "U+116C9",
      "U+11730", "U+11731", "U+11732", "U+11733", "U+11734", "U+11735", "U+11736", "U+11737", "U+11738", "U+11739",
      "U+118E0", "U+118E1", "U+118E2", "U+118E3", "U+118E4", "U+118E5", "U+118E6", "U+118E7", "U+118E8", "U+118E9",
      "U+11950", "U+11951", "U+11952", "U+11953", "U+11954", "U+11955", "U+11956", "U+11957", "U+11958", "U+11959",
      "U+11C50", "U+11C51", "U+11C52", "U+11C53", "U+11C54", "U+11C55", "U+11C56", "U+11C57", "U+11C58", "U+11C59",
      "U+11D50", "U+11D51", "U+11D52", "U+11D53", "U+11D54", "U+11D55", "U+11D56", "U+11D57", "U+11D58", "U+11D59",
      "U+11DA0", "U+11DA1", "U+11DA2", "U+11DA3", "U+11DA4", "U+11DA5", "U+11DA6", "U+11DA7", "U+11DA8", "U+11DA9",
      "U+16A60", "U+16A61", "U+16A62", "U+16A63", "U+16A64", "U+16A65", "U+16A66", "U+16A67", "U+16A68", "U+16A69",
      "U+16AC0", "U+16AC1", "U+16AC2", "U+16AC3", "U+16AC4", "U+16AC5", "U+16AC6", "U+16AC7", "U+16AC8", "U+16AC9",
      "U+16B50", "U+16B51", "U+16B52", "U+16B53", "U+16B54", "U+16B55", "U+16B56", "U+16B57", "U+16B58", "U+16B59",
      "U+1D7CE", "U+1D7CF", "U+1D7D0", "U+1D7D1", "U+1D7D2", "U+1D7D3", "U+1D7D4", "U+1D7D5", "U+1D7D6", "U+1D7D7",
      "U+1D7D8", "U+1D7D9", "U+1D7DA", "U+1D7DB", "U+1D7DC", "U+1D7DD", "U+1D7DE", "U+1D7DF", "U+1D7E0", "U+1D7E1",
      "U+1D7E2", "U+1D7E3", "U+1D7E4", "U+1D7E5", "U+1D7E6", "U+1D7E7", "U+1D7E8", "U+1D7E9", "U+1D7EA", "U+1D7EB",
      "U+1D7EC", "U+1D7ED", "U+1D7EE", "U+1D7EF", "U+1D7F0", "U+1D7F1", "U+1D7F2", "U+1D7F3", "U+1D7F4", "U+1D7F5",
      "U+1D7F6", "U+1D7F7", "U+1D7F8", "U+1D7F9", "U+1D7FA", "U+1D7FB", "U+1D7FC", "U+1D7FD", "U+1D7FE", "U+1D7FF",
      "U+1E140", "U+1E141", "U+1E142", "U+1E143", "U+1E144", "U+1E145", "U+1E146", "U+1E147", "U+1E148", "U+1E149",
      "U+1E2F0", "U+1E2F1", "U+1E2F2", "U+1E2F3", "U+1E2F4", "U+1E2F5", "U+1E2F6", "U+1E2F7", "U+1E2F8", "U+1E2F9",
      "U+1E950", "U+1E951", "U+1E952", "U+1E953", "U+1E954", "U+1E955", "U+1E956", "U+1E957", "U+1E958", "U+1E959",
      "U+1FBF0", "U+1FBF1", "U+1FBF2", "U+1FBF3", "U+1FBF4", "U+1FBF5", "U+1FBF6", "U+1FBF7", "U+1FBF8", "U+1FBF9" }

\* \d
Digits == AsciiDigits \cup UnicodeDigits

UpperLetters == {"A","B","C","D","E","F","G","H","I","J","K","L","M",
                 "N","O","P","Q","R","S","T","U","V","W","X","Y","Z"}

LowerLetters == {"a","b","c","d","e","f","g","h","i","j","k","l","m",
                 "n","o","p","q","r","s","t","u","v","w","x","y","z"}

\* the code points of the alphabet outside ASCII that \w matches besides
\* the digits: those for which str.isalnum() holds (letters, letter-like
\* marks and other numerics such as superscripts and fractions)
UnicodeWordChars ==
    { "U+00AA", "U+00B2", "U+00B3", "U+00B5", "U+00B9", "U+00BA", "U+00BC", "U+00BD", "U+00BE", "U+00C0",
      "U+00C1", "U+00C2", "U+00C3", "U+00C4", "U+00C5", "U+00C6", "U+00C7", "U+00C8", "U+00C9", "U+00CA",
      "U+00CB", "U+00CC", "U+00CD", "U+00CE", "U+00CF", "U+00D0", "U+00D1", "U+00D2", "U+00D3", "U+00D4",
      "U+00D5", "U+00D6", "U+00D8", "U+00D9", "U+00DA", "U+00DB", "U+00DC", "U+00DD", "U+00DE", "U+00DF",
      "U+00E0", "U+00E1", "U+00E2", "U+00E3", "U+00E4", "U+00E5", "U+00E6", "U+00E7", "U+00E8", "U+00E9",
      "U+00EA", "U+00EB", "U+00EC", "U+00ED", "U+00EE", "U+00EF", "U+00F0", "U+00F1", "U+00F2", "U+00F3",
      "U+00F4", "U+00F5", "U+00F6", "U+00F8", "U+00F9", "U+00FA", "U+00FB", "U+00FC", "U+00FD", "U+00FE",
      "U+00FF", "U+0100", "U+0101", "U+0102", "U+0103", "U+0104", "U+0105", "U+0106", "U+0107", "U+0108",
      "U+0109", "U+010A", "U+010B", "U+010C", "U+010D", "U+010E", "U+010F", "U+0110", "U+0111", "U+0112",
      "U+0113", "U+0114", "U+0115", "U+0116", "U+0117", "U+0118", "U+0119", "U+011A", "U+011B", "U+011C",
      "U+011D", "U+011E", "U+011F", "U+0120", "U+0121", "U+0122", "U+0123", "U+0124", "U+0125", "U+0126",
      "U+0127", "U+0128", "U+0129", "U+012A", "U+012B", "U+012C", "U+012D", "U+012E", "U+012F", "U+0130",
      "U+0131", "U+0132", "U+0133", "U+0134", "U+0135", "U+0136", "U+0137", "U+0138", "U+0139", "U+013A",
      "U+013B", "U+013C", "U+013D", "U+013E", "U+013F", "U+0140", "U+0141", "U+0142", "U+0143", "U+0144",
      "U+0145", "U+0146", "U+0147", "U+0148", "U+0149", "U+014A", "U+014B", "U+014C", "U+014D", "U+014E",
      "U+014F", "U+0150", "U+0151", "U+0152", "U+0153", "U+0154", "U+0155", "U+0156", "U+0157", "U+0158",
      "U+0159", "U+015A", "U+015B", "U+015C", "U+015D", "U+015E", "U+015F", "U+0160", "U+0161", "U+0162",
      "U+0163", "U+0164", "U+0165", "U+0166", "U+0167", "U+0168", "U+0169", "U+016A", "U+016B", "U+016C",
      "U+016D", "U+016E", "U+016F", "U+0170", "U+0171", "U+0172", "U+0173", "U+0174", "U+0175", "U+0176",
      "U+0177", "U+0178", "U+0179", "U+017A", "U+017B", "U+017C", "U+017D", "U+017E", "U+017F", "U+0180",
      "U+0181", "U+0182", "U+0183", "U+0184", "U+0185", "U+0186", "U+0187", "U+0188", "U+0189", "U+018A",
      "U+018B", "U+018C", "U+018D", "U+018E", "U+018F", "U+0190", "U+0191", "U+0192", "U+0193", "U+0194",
      "U+0195", "U+0196", "U+0197", "U+0198", "U+0199", "U+019A", "U+019B", "U+019C", "U+019D", "U+019E",
      "U+019F", "U+01A0", "U+01A1", "U+01A2", "U+01A3", "U+01A4", "U+01A5", "U+01A6", "U+01A7", "U+01A8",
      "U+01A9", "U+01AA", "U+01AB", "U+01AC", "U+01AD", "U+01AE", "U+01AF", "U+01B0", "U+01B1", "U+01B2",
      "U+01B3", "U+01B4", "U+01B5", "U+01B6", "U+01B7", "U+01B8", "U+01B9", "U+01BA", "U+01BB", "U+01BC",
      "U+01BD", "U+01BE", "U+01BF", "U+01C0", "U+01C1", "U+01C2", "U+01C3", "U+01C4", "U+01C5", "U+01C6",
      "U+01C7", "U+01C8", "U+01C9", "U+01CA", "U+01CB", "U+01CC", "U+01CD", "U+01CE", "U+01CF", "U+01D0",
      "U+01D1", "U+01D2", "U+01D3", "U+01D4", "U+01D5", "U+01D6", "U+01D7", "U+01D8", "U+01D9", "U+01DA",
      "U+01DB", "U+01DC", "U+01DD", "U+01DE", "U+01DF", "U+01E0", "U+01E1", "U+01E2", "U+01E3", "U+01E4",
      "U+01E5", "U+01E6", "U+01E7", "U+01E8", "U+01E9", "U+01EA", "U+01EB", "U+01EC", "U+01ED", "U+01EE",
      "U+01EF", "U+01F0", "U+01F1", "U+01F2", "U+01F3", "U+01F4", "U+01F5", "U+01F6", "U+01F7", "U+01F8",
      "U+01F9", "U+01FA", "U+01FB", "U+01FC", "U+01FD", "U+01FE", "U+01FF", "U+0200", "U+0201", "U+0202",
      "U+0203", "U+0204", "U+0205", "U+0206", "U+0207", "U+0208", "U+0209", "U+020A", "U+020B", "U+020C",
      "U+020D", "U+020E", "U+020F", "U+0210", "U+0211", "U+0212", "U+0213", "U+0214", "U+0215", "U+0216",
      "U+0217", "U+0218", "U+0219", "U+021A", "U+021B", "U+021C", "U+021D", "U+021E", "U+021F", "U+0220",
      "U+0221", "U+0222", "U+0223", "U+0224", "U+0225", "U+0226", "U+0227", "U+0228", "U+0229", "U+022A",
      "U+022B", "U+022C", "U+022D", "U+022E", "U+022F", "U+0230", "U+0231", "U+0232", "U+0233", "U+0234",
      "U+0235", "U+0236", "U+0237", "U+0238", "U+0239", "U+023A", "U+023B", "U+023C", "U+023D", "U+023E",
      "U+023F", "U+0240", "U+0241", "U+0242", "U+0243", "U+0244", "U+0245", "U+0246", "U+0247", "U+0248",
      "U+0249", "U+024A", "U+024B", "U+024C", "U+024D", "U+024E", "U+024F", "U+0250", "U+0251", "U+0252",
      "U+0253", "U+0254", "U+0255", "U+0256", "U+0257", "U+0258", "U+0259", "U+025A", "U+025B", "U+025C",
      "U+025D", "U+025E", "U+025F", "U+0260", "U+0261", "U+0262", "U+0263", "U+0264", "U+0265", "U+0266",
      "U+0267", "U+0268", "U+0269", "U+026A", "U+026B", "U+026C", "U+026D", "U+026E", "U+026F", "U+0270",
      "U+0271", "U+0272", "U+0273", "U+0274", "U+0275", "U+0276", "U+0277", "U+0278", "U+0279", "U+027A",
      "U+027B", "U+027C", "U+027D", "U+027E", "U+027F", "U+0280", "U+0281", "U+0282", "U+0283", "U+0284",
      "U+0285", "U+0286", "U+0287", "U+0288", "U+0289", "U+028A", "U+028B", "U+028C", "U+028D", "U+028E",
      "U+028F", "U+0290", "U+0291", "U+0292", "U+0293", "U+0294", "U+0295", "U+0296", "U+0297", "U+0298",
      "U+0299", "U+029A", "U+029B", "U+029C", "U+029D", "U+029E", "U+029F", "U+02A0", "U+02A1", "U+02A2",
      "U+02A3", "U+02A4", "U+02A5", "U+02A6", "U+02A7", "U+02A8", "U+02A9", "U+02AA", "U+02AB", "U+02AC",
      "U+02AD", "U+02AE", "U+02AF", "U+02B0", "U+02B1", "U+02B2", "U+02B3", "U+02B4", "U+02B5", "U+02B6",
      "U+02B7", "U+02B8", "U+02B9", "U+02BA", "U+02BB", "U+02BC", "U+02BD", "U+02BE", "U+02BF", "U+02C0",
      "U+02C1", "U+02C6", "U+02C7", "U+02C8", "U+02C9", "U+02CA", "U+02CB", "U+02CC", "U+02CD", "U+02CE",
      "U+02CF", "U+02D0", "U+02D1", "U+02E0", "U+02E1", "U+02E2", "U+02E3", "U+02E4", "U+02EC", "U+02EE",
      "U+0370", "U+0371", "U+0372", "U+0373", "U+0374", "U+0376", "U+0377", "U+037A", "U+037B", "U+037C",
      "U+037D", "U+037F", "U+0386", "U+0388", "U+0389", "U+038A", "U+038C", "U+038E", "U+038F", "U+0390",
      "U+0391", "U+0392", "U+0393", "U+0394", "U+0395", "U+0396", "U+0397", "U+0398", "U+0399", "U+039A",
      "U+039B", "U+039C", "U+039D", "U+039E", "U+039F", "U+03A0", "U+03A1", "U+03A3", "U+03A4", "U+03A5",
      "U+03A6", "U+03A7", "U+03A8", "U+03A9", "U+03AA", "U+03AB", "U+03AC", "U+03AD", "U+03AE", "U+03AF",
      "U+03B0", "U+03B1", "U+03B2", "U+03B3", "U+03B4", "U+03B5", "U+03B6", "U+03B7", "U+03B8", "U+03B9",
      "U+03BA", "U+03BB", "U+03BC", "U+03BD", "U+03BE", "U+03BF", "U+03C0", "U+03C1", "U+03C2", "U+03C3",
      "U+03C4", "U+03C5", "U+03C6", "U+03C7", "U+03C8", "U+03C9", "U+03CA", "U+03CB", "U+03CC", "U+03CD",
      "U+03CE", "U+03CF", "U+03D0", "U+03D1", "U+03D2", "U+03D3", "U+03D4", "U+03D5", "U+03D6", "U+03D7",
      "U+03D8", "U+03D9", "U+03DA", "U+03DB", "U+03DC", "U+03DD", "U+03DE", "U+03DF", "U+03E0", "U+03E1",
      "U+03E2", "U+03E3", "U+03E4", "U+03E5", "U+03E6", "U+03E7", "U+03E8", "U+03E9", "U+03EA", "U+03EB",
      "U+03EC", "U+03ED", "U+03EE", "U+03EF", "U+03F0", "U+03F1", "U+03F2", "U+03F3", "U+03F4", "U+03F5",
      "U+03F7", "U+03F8", "U+03F9", "U+03FA", "U+03FB", "U+03FC", "U+03FD", "U+03FE", "U+03FF", "U+0400",
      "U+0401", "U+0402", "U+0403", "U+0404", "U+0405", "U+0406", "U+0407", "U+0408", "U+0409", "U+040A",
      "U+040B", "U+040C", "U+040D", "U+040E", "U+040F", "U+0410", "U+0411", "U+0412", "U+0413", "U+0414",
      "U+0415", "U+0416", "U+0417", "U+0418", "U+0419", "U+041A", "U+041B", "U+041C", "U+041D", "U+041E",
      "U+041F", "U+0420", "U+0421", "U+0422", "U+0423", "U+0424", "U+0425", "U+0426", "U+0427", "U+0428",
      "U+0429", "U+042A", "U+042B", "U+042C", "U+042D", "U+042E", "U+042F", "U+0430", "U+0431", "U+0432",
      "U+0433", "U+0434", "U+0435", "U+0436", "U+0437", "U+0438", "U+0439", "U+043A", "U+043B", "U+043C",
      "U+043D", "U+043E", "U+043F", "U+0440", "U+0441", "U+0442", "U+0443", "U+0444", "U+0445", "U+0446",
      "U+0447", "U+0448", "U+0449", "U+044A", "U+044B", "U+044C", "U+044D", "U+044E", "U+044F", "U+0450",
      "U+0451", "U+0452", "U+0453", "U+0454", "U+0455", "U+0456", "U+0457", "U+0458", "U+0459", "U+045A",
      "U+045B", "U+045C", "U+045D", "U+045E", "U+045F", "U+0460", "U+0461", "U+0462", "U+0463", "U+0464",
      "U+0465", "U+0466", "U+0467", "U+0468", "U+0469", "U+046A", "U+046B", "U+046C", "U+046D", "U+046E",
      "U+046F", "U+0470", "U+0471", "U+0472", "U+0473", "U+0474", "U+0475", "U+0476", "U+0477", "U+0478",
      "U+0479", "U+047A", "U+047B", "U+047C", "U+047D", "U+047E", "U+047F", "U+0480", "U+0481", "U+048A",
      "U+048B", "U+048C", "U+048D", "U+048E", "U+048F", "U+0490", "U+0491", "U+0492", "U+0493", "U+0494",
      "U+0495", "U+0496", "U+0497", "U+0498", "U+0499", "U+049A", "U+049B", "U+049C", "U+049D", "U+049E",
      "U+049F", "U+04A0", "U+04A1", "U+04A2", "U+04A3", "U+04A4", "U+04A5", "U+04A6", "U+04A7", "U+04A8",
      "U+04A9", "U+04AA", "U+04AB", "U+04AC", "U+04AD", "U+04AE", "U+04AF", "U+04B0", "U+04B1", "U+04B2",
      "U+04B3", "U+04B4", "U+04B5", "U+04B6", "U+04B7", "U+04B8", "U+04B9", "U+04BA", "U+04BB", "U+04BC",
      "U+04BD", "U+04BE", "U+04BF", "U+04C0", "U+04C1", "U+04C2", "U+04C3", "U+04C4", "U+04C5", "U+04C6",
      "U+04C7", "U+04C8", "U+04C9", "U+04CA", "U+04CB", "U+04CC", "U+04CD", "U+04CE", "U+04CF", "U+04D0",
      "U+04D1", "U+04D2", "U+04D3", "U+04D4", "U+04D5", "U+04D6", "U+04D7", "U+04D8", "U+04D9", "U+04DA",
      "U+04DB", "U+04DC", "U+04DD", "U+04DE", "U+04DF", "U+04E0", "U+04E1", "U+04E2", "U+04E3", "U+04E4",
      "U+04E5", "U+04E6", "U+04E7", "U+04E8", "U+04E9", "U+04EA", "U+04EB", "U+04EC", "U+04ED", "U+04EE",
      "U+04EF", "U+04F0", "U+04F1", "U+04F2", "U+04F3", "U+04F4", "U+04F5", "U+04F6", "U+04F7", "U+04F8",
      "U+04F9", "U+04FA", "U+04FB", "U+04FC", "U+04FD", "U+04FE", "U+04FF", "U+0500", "U+0501", "U+0502",
      "U+0503", "U+0504", "U+0505", "U+0506", "U+0507", "U+0508", "U+0509", "U+050A", "U+050B", "U+050C",
      "U+050D", "U+050E", "U+050F", "U+0510", "U+0511", "U+0512", "U+0513", "U+0514", "U+0515", "U+0516",
      "U+0517", "U+0518", "U+0519", "U+051A", "U+051B", "U+051C", "U+051D", "U+051E", "U+051F", "U+0520",
      "U+0521", "U+0522", "U+0523", "U+0524", "U+0525", "U+0526", "U+0527", "U+0528", "U+0529", "U+052A",
      "U+052B", "U+052C", "U+052D", "U+052E", "U+052F", "U+0531", "U+0532", "U+0533", "U+0534", "U+0535",
      "U+0536", "U+0537", "U+0538", "U+0539", "U+053A", "U+053B", "U+053C", "U+053D", "U+053E", "U+053F",
      "U+0540", "U+0541", "U+0542", "U+0543", "U+0544", "U+0545", "U+0546", "U+0547", "U+0548", "U+0549",
      "U+054A", "U+054B", "U+054C", "U+054D", "U+054E", "U+054F", "U+0550", "U+0551", "U+0552", "U+0553",
      "U+0554", "U+0555", "U+0556", "U+0559", "U+0560", "U+0561", "U+0562", "U+0563", "U+0564", "U+0565",
      "U+0566", "U+0567", "U+0568", "U+0569", "U+056A", "U+056B", "U+056C", "U+056D", "U+056E", "U+056F",
      "U+0570", "U+0571", "U+0572", "U+0573", "U+0574", "U+0575", "U+0576", "U+0577", "U+0578", "U+0579",
      "U+057A", "U+057B", "U+057C", "U+057D", "U+057E", "U+057F", "U+0580", "U+0581", "U+0582", "U+0583",
      "U+0584", "U+0585", "U+0586", "U+0587", "U+0588", "U+05D0", "U+05D1", "U+05D2", "U+05D3", "U+05D4",
      "U+05D5", "U+05D6", "U+05D7", "U+05D8", "U+05D9", "U+05DA", "U+05DB", "U+05DC", "U+05DD", "U+05DE",
      "U+05DF", "U+05E0", "U+05E1", "U+05E2", "U+05E3", "U+05E4", "U+05E5", "U+05E6", "U+05E7", "U+05E8",
      "U+05E9", "U+05EA", "U+05EF", "U+05F0", "U+05F1", "U+05F2", "U+0620", "U+0621", "U+0622", "U+0623",
      "U+0624", "U+0625", "U+0626", "U+0627", "U+0628", "U+0629", "U+062A", "U+062B", "U+062C", "U+062D",
      "U+062E", "U+062F", "U+0630", "U+0631", "U+0632", "U+0633", "U+0634", "U+0635", "U+0636", "U+0637",
      "U+0638", "U+0639", "U+063A", "U+063B", "U+063C", "U+063D", "U+063E", "U+063F", "U+0640", "U+0641",
      "U+0642", "U+0643", "U+0644", "U+0645", "U+0646", "U+0647", "U+0648", "U+0649", "U+064A", "U+066E",
      "U+066F", "U+0671", "U+0672", "U+0673", "U+0674", "U+0675", "U+0676", "U+0677", "U+0678", "U+0679",
      "U+067A", "U+067B", "U+067C", "U+067D", "U+067E", "U+067F", "U+0680", "U+0681", "U+0682", "U+0683",
      "U+0684", "U+0685", "U+0686", "U+0687", "U+0688", "U+0689", "U+068A", "U+068B", "U+068C", "U+068D",
      "U+068E", "U+068F", "U+0690", "U+0691", "U+0692", "U+0693", "U+0694", "U+0695", "U+0696", "U+0697",
      "U+0698", "U+0699", "U+069A", "U+069B", "U+069C", "U+069D", "U+069E", "U+069F", "U+06A0", "U+06A1",
      "U+06A2", "U+06A3", "U+06A4", "U+06A5", "U+06A6", "U+06A7", "U+06A8", "U+06A9", "U+06AA", "U+06AB",
      "U+06AC", "U+06AD", "U+06AE", "U+06AF", "U+06B0", "U+06B1", "U+06B2", "U+06B3", "U+06B4", "U+06B5",
      "U+06B6", "U+06B7", "U+06B8", "U+06B9", "U+06BA", "U+06BB", "U+06BC", "U+06BD", "U+06BE", "U+06BF",
      "U+06C0", "U+06C1", "U+06C2", "U+06C3", "U+06C4", "U+06C5", "U+06C6", "U+06C7", "U+06C8", "U+06C9",
      "U+06CA", "U+06CB", "U+06CC", "U+06CD", "U+06CE", "U+06CF", "U+06D0", "U+06D1", "U+06D2", "U+06D3",
      "U+06D5", "U+06E5", "U+06E6", "U+06EE", "U+06EF", "U+06FA", "U+06FB", "U+06FC", "U+06FF", "U+0710",
      "U+0712", "U+0713", "U+0714", "U+0715", "U+0716", "U+0717", "U+0718", "U+0719", "U+071A", "U+071B",
      "U+071C", "U+071D", "U+071E", "U+071F", "U+0720", "U+0721", "U+0722", "U+0723", "U+0724", "U+0725",
      "U+0726", "U+0727", "U+0728", "U+0729", "U+072A", "U+072B", "U+072C", "U+072D", "U+072E", "U+072F",
      "U+074D", "U+074E", "U+074F", "U+0750", "U+0751", "U+0752", "U+0753", "U+0754", "U+0755", "U+0756",
      "U+0757", "U+0758", "U+0759", "U+075A", "U+075B", "U+075C", "U+075D", "U+075E", "U+075F", "U+0760",
      "U+0761", "U+0762", "U+0763", "U+0764", "U+0765", "U+0766", "U+0767", "U+0768", "U+0769", "U+076A",
      "U+076B", "U+076C", "U+076D", "U+076E", "U+076F", "U+0770", "U+0771", "U+0772", "U+0773", "U+0774",
      "U+0775", "U+0776", "U+0777", "U+0778", "U+0779", "U+077A", "U+077B", "U+077C", "U+077D", "U+077E",
      "U+077F", "U+0780", "U+0781", "U+0782", "U+0783", "U+0784", "U+0785", "U+0786", "U+0787", "U+0788",
      "U+0789", "U+078A", "U+078B", "U+078C", "U+078D", "U+078E", "U+078F", "U+0790", "U+0791", "U+0792",
      "U+0793", "U+0794", "U+0795", "U+0796", "U+0797", "U+0798", "U+0799", "U+079A", "U+079B", "U+079C",
      "U+079D", "U+079E", "U+079F", "U+07A0", "U+07A1", "U+07A2", "U+07A3", "U+07A4", "U+07A5", "U+07B1",
      "U+07CA", "U+07CB", "U+07CC", "U+07CD", "U+07CE", "U+07CF", "U+07D0", "U+07D1", "U+07D2", "U+07D3",
      "U+07D4", "U+07D5", "U+07D6", "U+07D7", "U+07D8", "U+07D9", "U+07DA", "U+07DB", "U+07DC", "U+07DD",
      "U+07DE", "U+07DF", "U+07E0", "U+07E1", "U+07E2", "U+07E3", "U+07E4", "U+07E5", "U+07E6", "U+07E7",
      "U+07E8", "U+07E9", "U+07EA", "U+07F4", "U+07F5", "U+07FA", "U+FF21", "U+FF22", "U+FF23", "U+FF24",
      "U+FF25", "U+FF26", "U+FF27", "U+FF28", "U+FF29", "U+FF2A", "U+FF2B", "U+FF2C", "U+FF2D", "U+FF2E",
      "U+FF2F", "U+FF30", "U+FF31", "U+FF32", "U+FF33", "U+FF34", "U+FF35", "U+FF36", "U+FF37", "U+FF38",
      "U+FF39", "U+FF3A", "U+FF41", "U+FF42", "U+FF43", "U+FF44", "U+FF45", "U+FF46", "U+FF47", "U+FF48",
      "U+FF49", "U+FF4A", "U+FF4B", "U+FF4C", "U+FF4D", "U+FF4E", "U+FF4F", "U+FF50", "U+FF51", "U+FF52",
      "U+FF53", "U+FF54", "U+FF55", "U+FF56", "U+FF57", "U+FF58", "U+FF59", "U+FF5A", "U+FF66", "U+FF67",
      "U+FF68", "U+FF69", "U+FF6A", "U+FF6B", "U+FF6C", "U+FF6D", "U+FF6E", "U+FF6F", "U+FF70", "U+FF71",
      "U+FF72", "U+FF73", "U+FF74", "U+FF75", "U+FF76", "U+FF77", "U+FF78", "U+FF79", "U+FF7A", "U+FF7B",
      "U+FF7C", "U+FF7D", "U+FF7E", "U+FF7F", "U+FF80", "U+FF81", "U+FF82", "U+FF83", "U+FF84", "U+FF85",
      "U+FF86", "U+FF87", "U+FF88", "U+FF89", "U+FF8A", "U+FF8B", "U+FF8C", "U+FF8D", "U+FF8E", "U+FF8F",
      "U+FF90", "U+FF91", "U+FF92", "U+FF93", "U+FF94", "U+FF95", "U+FF96", "U+FF97", "U+FF98", "U+FF99",
      "U+FF9A", "U+FF9B", "U+FF9C", "U+FF9D", "U+FF9E", "U+FF9F", "U+FFA0", "U+FFA1", "U+FFA2", "U+FFA3",
      "U+FFA4", "U+FFA5", "U+FFA6", "U+FFA7", "U+FFA8", "U+FFA9", "U+FFAA", "U+FFAB", "U+FFAC", "U+FFAD",
      "U+FFAE", "U+FFAF", "U+FFB0", "U+FFB1", "U+FFB2", "U+FFB3", "U+FFB4", "U+FFB5", "U+FFB6", "U+FFB7",
      "U+FFB8", "U+FFB9", "U+FFBA", "U+FFBB", "U+FFBC", "U+FFBD", "U+FFBE", "U+FFC2", "U+FFC3", "U+FFC4",
      "U+FFC5", "U+FFC6", "U+FFC7", "U+FFCA", "U+FFCB", "U+FFCC", "U+FFCD", "U+FFCE", "U+FFCF", "U+FFD2",
      "U+FFD3", "U+FFD4", "U+FFD5", "U+FFD6", "U+FFD7", "U+FFDA", "U+FFDB", "U+FFDC" }

\* \w
WordChars ==
    Digits \cup UpperLetters \cup LowerLetters \cup {"_"} \cup UnicodeWordChars

\* [\w./?=&%-]
UrlChars == WordChars \cup {".", "/", "?", "=", "&", "%", "-"}

\* last index of the maximal run of characters of class cls starting at i
\* (i - 1 when s[i] is not in the class)
RunEnd(s, i, cls) ==
    LET stops == {k \in i..Len(s) : s[k] \notin cls}
    IN  IF stops = {} THEN Len(s)
        ELSE (CHOOSE k \in stops : \A k2 \in stops : k <= k2) - 1

\* ------------------------------------------------------------------------
\* URL extractor: re.findall(r"https?://[\w./?=&%-]+", text)
\* ------------------------------------------------------------------------
\* first index of the character-class part of a match starting at i, or 0
UrlBodyStart(s, i) ==
    IF IsPrefixAt(<<"h","t","t","p","s",":","/","/">>, s, i) THEN i + 8
    ELSE IF IsPrefixAt(<<"h","t","t","p",":","/","/">>, s, i) THEN i + 7
    ELSE 0

\* last index of the match of the pattern starting at i, or 0 if none
UrlMatchEnd(s, i) ==
    LET b == UrlBodyStart(s, i)
    IN  IF b = 0 THEN 0
        ELSE IF RunEnd(s, b, UrlChars) < b THEN 0
        ELSE RunEnd(s, b, UrlChars)

\* the non-overlapping matches, scanning from left to right: from[i] is the
\* list of the matches that start at index i or later
FindAllUrls(text) ==
    LET from[i \in 1..(Len(text) + 1)] ==
            IF i > Len(text) THEN << >>
            ELSE IF UrlMatchEnd(text, i) = 0 THEN from[i + 1]
            ELSE <<SubSeq(text, i, UrlMatchEnd(text, i))>>
                 \o from[UrlMatchEnd(text, i) + 1]
    IN  from[1]

\* prepare_message: message.text if message and message.text else ""
prepare_message(text) == IF Truthy(text) THEN text[1] ELSE << >>

\* ------------------------------------------------------------------------
\* AliExpress handler: pure parts
\* ------------------------------------------------------------------------
\* "aliexpress.com" in url
AliCanHandle(url) ==
    Contains(url, <<"a","l","i","e","x","p","r","e","s","s",".","c","o","m">>)

\* a match of /item/(\d+)\.html starting at i
AliIdMatchAt(url, i) ==
    /\ IsPrefixAt(<<"/","i","t","e","m","/">>, url, i)
    /\ RunEnd(url, i + 6, Digits) >= i + 6
    /\ IsPrefixAt(<<".","h","t","m","l">>, url, RunEnd(url, i + 6, Digits) + 1)

\* re.search(r"/item/(\d+)\.html", url): group 1 of the leftmost match
extract_product_id(url) ==
    LET starts == {i \in 1..Len(url) : AliIdMatchAt(url, i)}
    IN  IF starts = {} THEN None
        ELSE LET i == CHOOSE m \in starts : \A n \in starts : m <= n
             IN  Some(SubSeq(url, i + 6, RunEnd(url, i + 6, Digits)))

\* f"{url}?aff_id={self.config.aliexpress_aff_id}"
AliCreateAffiliateLink(cfg, url) ==
    url \o <<"?","a","f","f","_","i","d","=">> \o PyStr(cfg.aliexpress_aff_id)

\* ------------------------------------------------------------------------
\* AliExpress handler: request signing (lines 39-42) and the request
\* parameters (lines 49-55).  A dict is the sequence of its items
\* <<key, value>> in insertion order; a value is rendered by the f-string
\* as str(value), so it is kept as an optional str.
\* ------------------------------------------------------------------------
\* the characters in ascending code point order
AsciiOrder ==
    <<"%","&","-",".","/","0","1","2","3","4","5","6","7","8","9",":","=","?",
      "A","B","C","D","E","F","G","H","I","J","K","L","M",
      "N","O","P","Q","R","S","T","U","V","W","X","Y","Z","_",
      "a","b","c","d","e","f","g","h","i","j","k","l","m",
      "n","o","p","q","r","s","t","u","v","w","x","y","z">>

Ord(c) == CHOOSE n \in 1..Len(AsciiOrder) : AsciiOrder[n] = c

\* a < b for two str values: the first differing character decides, and a
\* proper prefix is smaller
StrLess(a, b) ==
    \E n \in 1..(Len(a) + 1) :
        /\ n - 1 <= Len(b)
        /\ \A j \in 1..(n - 1) : a[j] = b[j]
        /\ \/ n = Len(a) + 1 /\ Len(b) >= n
           \/ n <= Len(a) /\ n <= Len(b) /\ Ord(a[n]) < Ord(b[n])

\* the items left in the order of insertion (no sort)
SortedItems_InsertionOrder(params) == params

\* sorted(params.items()): the items in ascending order of their keys (the
\* keys of a dict are distinct, so the values are never compared)
SortedItems(params) ==
    LET items == {params[n] : n \in 1..Len(params)}
        rank(it) == Cardinality({other \in items : StrLess(other[1], it[1])}) + 1
    IN  [n \in 1..Len(params) |-> CHOOSE it \in items : rank(it) = n]

\* "".join(f"{k}{v}" for k, v in items)
JoinItems(items) ==
    LET joined[n \in 0..Len(items)] ==
            IF n = 0 THEN << >>
            ELSE joined[n - 1] \o items[n][1] \o PyStr(items[n][2])
    IN  joined[Len(items)]

\* hashlib.md5(s.encode("utf-8")).hexdigest(), as an uninterpreted digest:
\* the text "md5(s)" stands for the 32 hexadecimal digits, so that equal
\* inputs give equal digests and different inputs different ones
MD5Hex(s) == <<"md5(">> \o s \o <<")">>

\* lines 40-42
generate_signature(handler, api_path, params) ==
    MD5Hex(PyStr(handler.secret) \o api_path \o JoinItems(SortedItems(params))
           \o PyStr(handler.secret))

\* params[key] = value: replaces the value of an existing key in place,
\* appends a new key at the end
DictSet(params, key, value) ==
    IF \E n \in 1..Len(params) : params[n][1] = key
    THEN [n \in 1..Len(params) |->
             IF params[n][1] = key THEN <<key, value>> ELSE params[n]]
    ELSE Append(params, <<key, value>>)

\* params[key], or None for a missing key
Param(params, key) ==
    IF \E n \in 1..Len(params) : params[n][1] = key
    THEN (CHOOSE it \in {params[n] : n \in 1..Len(params)} : it[1] = key)[2]
    ELSE None

\* line 49
AliApiPath ==
    <<"/","o","p","e","n","a","p","i","/","p","a","r","a","m","2","/",
      "2","/","p","o","r","t","a","l","s",".","o","p","e","n","/","a",
      "p","i",".","g","e","t","P","r","o","m","o","t","i","o","n","P",
      "r","o","d","u","c","t","D","e","t","a","i","l","/">>

K_app_key == <<"a","p","p","_","k","e","y">>

K_productId == <<"p","r","o","d","u","c","t","I","d">>

K_timestamp == <<"t","i","m","e","s","t","a","m","p">>

K_sign == <<"s","i","g","n">>

\* ------------------------------------------------------------------------
\* Amazon handler: pure parts
\* ------------------------------------------------------------------------
\* "amazon." in url
AmazonCanHandle(url) == Contains(url, <<"a","m","a","z","o","n",".">>)

\* a match of /([A-Z0-9]{10})(?:[/?]|$) starting at i
AsinMatchAt(url, i) ==
    /\ i + 10 <= Len(url)
    /\ url[i] = "/"
    /\ \A k \in (i + 1)..(i + 10) : url[k] \in UpperLetters \cup AsciiDigits
    /\ \/ i + 10 = Len(url)
       \/ url[i + 11] \in {"/", "?"}
       \/ i + 11 = Len(url) /\ url[i + 11] = "\n"

\* re.search(...).group(1) of the leftmost match
extract_asin(url) ==
    LET starts == {i \in 1..Len(url) : AsinMatchAt(url, i)}
    IN  IF starts = {} THEN None
        ELSE LET i == CHOOSE m \in starts : \A n \in starts : m <= n
             IN  Some(SubSeq(url, i + 1, i + 10))

\* the link built without testing whether an ASIN was found
AmazonCreateAffiliateLink_NoCheck(cfg, url) ==
    <<"h","t","t","p","s",":","/","/","w","w","w",".","a","m","a","z","o","n",".">>
    \o PyStr(cfg.amazon_country) \o <<"/","d","p","/">> \o PyStr(extract_asin(url))
    \o <<"?","t","a","g","=">> \o PyStr(cfg.amazon_affiliate_tag)

\* lines 130-134, given the two configuration values the f-string reads
AmazonLinkFrom(country, tag, url) ==
    LET asin == extract_asin(url)
    IN  IF asin # None
        THEN <<"h","t","t","p","s",":","/","/","w","w","w",".",
               "a","m","a","z","o","n",".">>
             \o PyStr(country) \o <<"/","d","p","/">> \o asin[1]
             \o <<"?","t","a","g","=">> \o PyStr(tag)
        ELSE url

\* lines 130-134 when nothing changes the configuration during the call
AmazonCreateAffiliateLink(cfg, url) ==
    AmazonLinkFrom(cfg.amazon_country, cfg.amazon_affiliate_tag, url)

\* ------------------------------------------------------------------------
\* Configuration (ConfigurationManager lives in config.py, outside
\* botaffiumeiro.py: the configuration object and load_configuration follow
\* the specification, "replaces the entire configuration object atomically")
\* ------------------------------------------------------------------------
MaxReloads == 2

DigitChar(n) == <<"0","1","2","3","4","5","6","7","8","9">>[(n % 10) + 1]

\* the configuration produced by the n-th load; every value names its load
ConfigOf(n) ==
    [ aliexpress_app_key    |-> Some(<<"k", DigitChar(n)>>),
      aliexpress_app_secret |-> Some(<<"s", DigitChar(n)>>),
      aliexpress_aff_id     |-> Some(<<"f", DigitChar(n)>>),
      amazon_access_key     |-> Some(<<"a", "k", DigitChar(n)>>),
      amazon_secret_key     |-> Some(<<"a", "s", DigitChar(n)>>),
      amazon_country        |-> Some(<<"e", DigitChar(n)>>),
      amazon_affiliate_tag  |-> Some(<<"t", DigitChar(n)>>),
      excluded_users        |-> IF n % 2 = 0
                                THEN {<<"id", 7>>, <<"name", <<"s","p","a","m">>>>}
                                ELSE {<<"id", 7>>, <<"name", <<"s","p","a","m">>>>,
                                      <<"id", 8>>} ]

\* ------------------------------------------------------------------------
\* Exclusion filter
\* ------------------------------------------------------------------------
\* the filter with the username test left out
is_user_excluded_IdOnly(cfg, user) == <<"id", user.id>> \in cfg.excluded_users

\* user_id in excluded_users or (username and username in excluded_users)
is_user_excluded(cfg, user) ==
    \/ <<"id", user.id>> \in cfg.excluded_users
    \/ /\ Truthy(user.username)
       /\ <<"name", user.username[1]>> \in cfg.excluded_users

\* ------------------------------------------------------------------------
\* AliExpress lookup: what get_product_info makes of the HTTP exchange
\* ------------------------------------------------------------------------
\* dict.get(key): the value, or None for a missing key
DictGet(d, k) == IF k \in DOMAIN d THEN d[k] ELSE None

AliFallbackDescription ==
    <<"P","r","o","d","u","c","t","o"," ","e","n"," ",
      "A","l","i","E","x","p","r","e","s","s">>

\* the dict built at lines 66-72 from data["result"]
AliProductOf(result) ==
    [ title       |-> DictGet(result, "productTitle"),
      image_url   |-> DictGet(result, "productMainImageUrl"),
      price       |-> DictGet(result, "salePrice"),
      old_price   |-> DictGet(result, "originalPrice"),
      description |-> IF Truthy(DictGet(result, "productDescription"))
                      THEN DictGet(result, "productDescription")
                      ELSE Some(AliFallbackDescription) ]

\* outcome of requests.get(BASE_URL, params, timeout=10) and what follows it:
\*   conn_error  requests.get raises (network error)
\*   timeout     requests.get raises after the 10 s timeout
\*   http_error  raise_for_status raises (non-2xx status)
\*   bad_json    response.json() raises (malformed body)
\*   json        the body parses; data is [t |-> "null"] or
\*               [t |-> "dict", d |-> ...], and a "result" entry likewise
AliParse(outcome) ==
    IF outcome.kind # "json" THEN None
    ELSE IF outcome.data.t # "dict" THEN None
    ELSE IF "result" \notin DOMAIN outcome.data.d THEN None
    ELSE IF outcome.data.d.result.t # "dict" THEN None
    ELSE Some(AliProductOf(outcome.data.d.result.d))

\* ------------------------------------------------------------------------
\* Amazon lookup: what get_product_info makes of api.get_items([asin])
\* ------------------------------------------------------------------------
AmazonFallbackDescription ==
    <<"P","r","o","d","u","c","t","o"," ","d","e"," ","A","m","a","z","o","n">>

\* each of the five dict entries either evaluates or raises
\* (AttributeError / TypeError on None, IndexError on an empty list)
AmzTitleRaises(item) ==
    \/ item.item_info = None
    \/ item.item_info[1].title = None

AmzImageRaises(item) ==
    \/ item.images = None
    \/ item.images[1].primary = None
    \/ item.images[1].primary[1].large = None

AmzPriceRaises(item) ==
    \/ item.offers = None
    \/ item.offers[1].listings = None
    \/ Len(item.offers[1].listings[1]) = 0
    \/ item.offers[1].listings[1][1].price = None

AmzDescriptionRaises(item) ==
    \/ item.item_info = None
    \/ /\ item.item_info[1].features # None
       /\ \/ item.item_info[1].features[1].display_values = None
          \/ Len(item.item_info[1].features[1].display_values[1]) = 0

\* the dict built at lines 114-120 from the first item
AmazonProductOf(item) ==
    LET price == item.offers[1].listings[1][1].price[1]
    IN  [ title       |-> item.item_info[1].title[1].display_value,
          image_url   |-> item.images[1].primary[1].large[1].url,
          price       |-> price.display_amount,
          old_price   |-> IF Truthy(price.savings_basis)
                          THEN price.savings_basis ELSE None,
          description |-> IF item.item_info[1].features # None
                          THEN Some(item.item_info[1].features[1].display_values[1][1])
                          ELSE Some(AmazonFallbackDescription) ]

\* outcome of self.api.get_items([asin]):
\*   api_error   the call raises
\*   result      it returns an object; result.items_result.items[0] is used
AmazonParse(outcome) ==
    IF outcome.kind # "result" THEN None
    ELSE IF outcome.result.items_result = None THEN None
    ELSE IF outcome.result.items_result[1].items = None THEN None
    ELSE IF Len(outcome.result.items_result[1].items[1]) = 0 THEN None
    ELSE LET item == outcome.result.items_result[1].items[1][1]
         IN  IF \/ AmzTitleRaises(item)
                \/ AmzImageRaises(item)
                \/ AmzPriceRaises(item)
                \/ AmzDescriptionRaises(item)
             THEN None
             ELSE Some(AmazonProductOf(item))

\* ------------------------------------------------------------------------
\* Link shortener and message composer
\* ------------------------------------------------------------------------
\* outcome of requests.get("https://tinyurl.com/api-create.php?url=..."):
\*   conn_error  the call raises
\*   response    [status, text]
\* the shortener with the status test left out
shorten_url_AnyStatus(url, outcome) ==
    IF outcome.kind = "response" THEN outcome.text ELSE url

shorten_url(url, outcome) ==
    IF outcome.kind = "response" /\ outcome.status = 200
    THEN outcome.text
    ELSE url

\* lines 174-180
Caption(product, short_link) ==
    <<"<","b",">">> \o PyStr(product.title) \o <<"<","/","b",">","\n">>
    \o <<"U+1F4B8"," ","P","r","e","c","i","o",":"," ">>
    \o PyStr(product.price) \o <<"\n">>
    \o (IF Truthy(product.old_price)
        THEN <<"U+1F4B0"," ","A","n","t","e","s",":"," ">>
             \o PyStr(product.old_price) \o <<"\n">>
        ELSE << >>)
    \o (IF Truthy(product.description)
        THEN <<"U+1F4DD"," ">> \o PyStr(product.description) \o <<"\n">>
        ELSE << >>)
    \o <<"U+1F517"," ">> \o short_link

\* lines 182-185: reply_photo when the product has an image, else reply_text
ProductReply(product, short_link) ==
    IF Truthy(product.image_url)
    THEN [kind |-> "photo", photo |-> product.image_url,
          text |-> Caption(product, short_link), parse_mode |-> Some("HTML")]
    ELSE [kind |-> "text", photo |-> None,
          text |-> Caption(product, short_link), parse_mode |-> Some("HTML")]

\* line 188: reply_text(f"<link emoji> {url}")
RawReply(url) ==
    [kind |-> "text", photo |-> None,
     text |-> <<"U+1F517"," ">> \o url, parse_mode |-> None]

\* ------------------------------------------------------------------------
\* Inputs: messages, vendor responses, shortener responses
\* ------------------------------------------------------------------------
S_http == <<"h","t","t","p",":","/","/">>

S_https == <<"h","t","t","p","s",":","/","/">>

S_aliexpress == <<"a","l","i","e","x","p","r","e","s","s",".","c","o","m">>

S_amazon == <<"a","m","a","z","o","n",".","e","s">>

S_item == <<"/","i","t","e","m","/","1","2",".","h","t","m","l">>

S_asin == <<"/","B","0","0","0","1","2","3","A","B","C">>

UrlAli == S_http \o S_aliexpress \o S_item

UrlAliNoId == S_http \o S_aliexpress \o <<"/","x">>

UrlAmazon == S_https \o S_amazon \o <<"/","d","p">> \o S_asin

UrlAmazonNoAsin == S_http \o S_amazon \o <<"/","x">>

\* an AliExpress link with a letter outside ASCII in its path and a product
\* id in Arabic-Indic digits: http://aliexpress.com/\u00f1/item/\u0661\u0662.html
S_itemArabic == <<"/","i","t","e","m","/","U+0661","U+0662",".","h","t","m","l">>

UrlAliArabic == S_http \o S_aliexpress \o <<"/","U+00F1">> \o S_itemArabic

\* a URL both handlers can handle, with a product id and an ASIN
UrlBoth == S_http \o S_aliexpress \o S_item \o <<"?","u","=">> \o S_amazon \o S_asin

UrlOther == S_http \o <<"e","x",".","o","r","g","/","a">>

\* an Amazon link that already is the affiliate link of the configuration
\* loaded at startup
UrlAmazonTagged ==
    S_https \o <<"w","w","w",".","a","m","a","z","o","n",".","e","0","/","d","p">>
    \o S_asin \o <<"?","t","a","g","=","t","0">>

Texts ==
    { << >>,
      <<"h","i"," ">> \o UrlAli,
      UrlAliNoId,
      <<"s","e","e"," ">> \o UrlAmazon \o <<" ","o","k">>,
      UrlAmazonNoAsin,
      UrlAmazonTagged,
      UrlAliArabic,
      UrlBoth,
      UrlOther,
      UrlOther \o <<" ">> \o UrlAli,
      UrlAmazon \o <<"\n">> \o UrlAmazon,
      UrlBoth \o <<",">> \o UrlAmazonNoAsin }

UserAnn == [id |-> 2, username |-> Some(<<"a","n","n">>)]

UserNoName == [id |-> 3, username |-> None]

UserById == [id |-> 7, username |-> None]

UserByName == [id |-> 1, username |-> Some(<<"s","p","a","m">>)]

\* excluded by id in every odd configuration load only; empty username
UserLater == [id |-> 8, username |-> Some(<< >>)]

\* an update: the message text (None for a message without text) and the
\* effective user (None when the update has none)
Updates ==
    {[text |-> Some(t), user |-> Some(UserAnn)] : t \in Texts}
    \cup {[text |-> Some(UrlAli), user |-> Some(w)] :
             w \in {UserNoName, UserById, UserByName, UserLater}}
    \cup {[text |-> Some(UrlBoth \o <<" ">> \o UrlAmazon), user |-> Some(w)] :
             w \in {UserById, UserByName}}
    \cup {[text |-> None, user |-> Some(UserAnn)],
          [text |-> Some(UrlAli), user |-> None]}

JNull == [t |-> "null"]

JDict(d) == [t |-> "dict", d |-> d]

AliResultFull ==
    [ productTitle |-> Some(<<"T","v">>),
      productMainImageUrl |-> Some(<<"i","m","g">>),
      salePrice |-> Some(<<"9">>),
      originalPrice |-> Some(<<"1","2">>),
      productDescription |-> Some(<<"D">>) ]

AliResultPlain ==
    [ productTitle |-> Some(<<"T","v">>),
      salePrice |-> Some(<<"9">>),
      productDescription |-> Some(<< >>) ]

AliResultNoPrice ==
    [ productTitle |-> Some(<<"T","v">>),
      originalPrice |-> None ]

AliResultEmpty == [x \in {} |-> None]

AliOutcomes ==
    { [kind |-> "conn_error"], [kind |-> "http_error"], [kind |-> "bad_json"],
      [kind |-> "json", data |-> JNull],
      [kind |-> "json", data |-> JDict([error |-> JNull])],
      [kind |-> "json", data |-> JDict([result |-> JNull])] }
    \cup {[kind |-> "json", data |-> JDict([result |-> JDict(r)])] :
             r \in {AliResultFull, AliResultPlain, AliResultNoPrice, AliResultEmpty}}

AmzPrice(amount, basis) ==
    Some([display_amount |-> amount, savings_basis |-> basis])

AmzItem(title, image, offers, features) ==
    [ item_info |-> Some([title |-> title, features |-> features]),
      images |-> image,
      offers |-> offers ]

AmzTitle == Some([display_value |-> Some(<<"W">>)])

AmzImage == Some([primary |-> Some([large |-> Some([url |-> Some(<<"p","i","c">>)])])])

AmzOffers(basis) == Some([listings |-> Some(<<[price |-> AmzPrice(Some(<<"5">>), basis)]>>)])

AmzFeatures == Some([display_values |-> Some(<< <<"F">> >>)])

AmazonItems ==
    { AmzItem(AmzTitle, AmzImage, AmzOffers(Some(<<"8">>)), AmzFeatures),
      AmzItem(AmzTitle, AmzImage, AmzOffers(None), None),
      AmzItem(AmzTitle, AmzImage, None, AmzFeatures),
      AmzItem(AmzTitle, AmzImage, Some([listings |-> Some(<< >>)]), AmzFeatures),
      AmzItem(AmzTitle, None, AmzOffers(None), AmzFeatures),
      AmzItem(None, AmzImage, AmzOffers(None), AmzFeatures),
      AmzItem(AmzTitle, AmzImage, AmzOffers(None),
              Some([display_values |-> Some(<< >>)])) }

AmzResult(items) == [kind |-> "result", result |-> [items_result |-> items]]

AmazonOutcomes ==
    { [kind |-> "api_error"],
      AmzResult(None),
      AmzResult(Some([items |-> Some(<< >>)])) }
    \cup {AmzResult(Some([items |-> Some(<<it>>)])) : it \in AmazonItems}

ShortenerOutcomes ==
    { [kind |-> "conn_error"],
      [kind |-> "response", status |-> 200,
       text |-> S_http \o <<"t",".","c","o","/","k">>],
      [kind |-> "response", status |-> 500, text |-> <<"E","r","r">>] }

\* how an awaited message.reply_photo / message.reply_text ends (lines 183,
\* 185, 188): the reply is sent, or the call raises (the request is
\* rejected, the network fails, the flood limit is hit)
ReplyOutcomes == {"sent", "error"}

\* readings of the clock in milliseconds, as str(int(...)) renders them
Timestamps == {<<"1","7">>, <<"1","8">>}

\* ------------------------------------------------------------------------
\* State
\* ------------------------------------------------------------------------
MaxMsgs == 2

Units == {"u1", "u2"}

VARIABLES
    config_manager,  \* the module-level configuration object (line 25)
    loads,           \* how many times load_configuration has replaced it
    reload_thread,   \* reload_thread of main: "ready", "finished" or "failed"
    timers,          \* number of started threading.Timer objects not yet fired
    unit,            \* per processing unit: the coroutine modify_link
    budget,          \* updates the transport may still deliver
    env,             \* the surroundings: workers of the transport and the
                     \* updates and external responses that can occur
    probe            \* a direct call of a handler method and its result

vars == <<config_manager, loads, reload_thread, timers, unit, budget, env, probe>>

IdleUnit ==
    [ pc |-> "idle", update |-> None, urls |-> << >>, i |-> 0, h |-> 0,
      ali |-> None, amazon |-> None, nargs |-> 0, product |-> None,
      affiliate_link |-> None, link_country |-> None,
      short_link |-> None, call |-> None,
      replies |-> << >>, consults |-> << >>, reads |-> << >>,
      excluded |-> None, last_short |-> None, shorts |-> << >>,
      sends |-> << >>, raised |-> FALSE ]

\* Application.builder()...build() (lines 246-248) leaves concurrent_updates
\* at its default: the transport processes one update at a time.
\* Every kind of update and of external response, in the first interval
\* after startup: the load of reload_thread (lines 240-243) falls between
\* any two steps, the timer it starts does not yet reload (reloads: the
\* loads that can succeed; a load can fail at any time)
FullEnv ==
    [ workers |-> {"u1"}, updates |-> Updates, ali |-> AliOutcomes,
      amazon |-> AmazonOutcomes, shortener |-> ShortenerOutcomes,
      clock |-> Timestamps, telegram |-> ReplyOutcomes, reloads |-> 1 ]

\* The reload task running between any two steps of the processing of a
\* message, for one message of each kind of configuration use: the
\* exclusion list, the AliExpress link, the Amazon link, and both handlers
\* on one URL
ReloadEnv ==
    [ workers   |-> {"u1"},
      updates   |-> { [text |-> Some(<<"s","e","e"," ">> \o UrlAmazon \o <<" ","o","k">>),
                       user |-> Some(UserAnn)],
                      [text |-> Some(UrlAli), user |-> Some(UserLater)],
                      [text |-> Some(UrlBoth), user |-> Some(UserAnn)] },
      ali       |-> { [kind |-> "conn_error"],
                      [kind |-> "json", data |-> JDict([result |-> JDict(AliResultPlain)])] },
      amazon    |-> { AmzResult(Some([items |-> Some(<<AmzItem(AmzTitle, AmzImage,
                                        AmzOffers(Some(<<"8">>)), AmzFeatures)>>)])) },
      shortener |-> { [kind |-> "conn_error"],
                      [kind |-> "response", status |-> 200,
                       text |-> S_http \o <<"t",".","c","o","/","k">>] },
      clock     |-> { <<"1","7">> },
      telegram  |-> ReplyOutcomes,
      reloads   |-> MaxReloads ]

Envs == {FullEnv, ReloadEnv}

\* main() has loaded the configuration once and started reload_thread
Init ==
    /\ config_manager = ConfigOf(0)
    /\ loads = 0
    /\ reload_thread = "ready"
    /\ timers = 0
    /\ unit = [u \in Units |-> IdleUnit]
    /\ budget = MaxMsgs
    /\ env \in Envs
    /\ probe = None

\* ------------------------------------------------------------------------
\* Handlers as the dispatcher sees them: 1 = AliExpress, 2 = Amazon
\* ------------------------------------------------------------------------
NumHandlers == 2

CanHandle(h, url) == IF h = 1 THEN AliCanHandle(url) ELSE AmazonCanHandle(url)

CreateAffiliateLink(h, cfg, url) ==
    IF h = 1 THEN AliCreateAffiliateLink(cfg, url)
    ELSE AmazonCreateAffiliateLink(cfg, url)

\* the request taking the key afresh from the configuration instead
AliRequestKey_Live(handler, cfg) == cfg.aliexpress_app_key

\* line 51: the key put into the request is the one copied at construction
AliRequestKey(handler, cfg) == handler.api_key

\* lines 50-54: the parameters before signing; now is
\* str(int(time.time() * 1000))
AliParams(handler, product_id, now) ==
    << <<K_app_key, AliRequestKey(handler, config_manager)>>,
       <<K_productId, Some(product_id)>>,
       <<K_timestamp, Some(now)>> >>

\* the request of lines 50-58; timeout=10.  The dict params is built once
\* (lines 50-54), then signed, and the signature is stored in it (line 55).
AliRequest(handler, product_id, now) ==
    CHOOSE request \in
        { [ to |-> "aliexpress", timeout |-> Some(10),
            params |-> DictSet(params, K_sign,
                               Some(generate_signature(handler, AliApiPath, params))) ] :
          params \in {AliParams(handler, product_id, now)} } : TRUE

\* self.api.get_items([asin]): no timeout is passed; the client made at
\* lines 95-100 keeps its credentials to itself
AmazonRequest(handler, asin) ==
    [ to |-> "amazon", timeout |-> None, asin |-> asin ]

\* requests.get(f"https://tinyurl.com/api-create.php?url={url}"): no timeout
ShortenRequest(url) ==
    [ to |-> "tinyurl", timeout |-> None, url |-> url ]

\* ------------------------------------------------------------------------
\* modify_link and process_link_handlers
\* ------------------------------------------------------------------------
\* line 166: the URL the outer loop is at
CurUrl(r) == r.urls[r.i]

\* lines 187-188: the handler returned no product; the reply with the raw
\* URL is issued and the coroutine waits for it at the await of line 188,
\* where other tasks and the reload thread run
NoProduct(r, outcome) ==
    [r EXCEPT !.pc = "reply_raw",
              !.call = None,
              !.consults = Append(@, [i |-> r.i, h |-> r.h,
                                      outcome |-> outcome, found |-> FALSE]),
              !.sends = Append(@, [i |-> r.i, outcome |-> "pending",
                                   msg |-> RawReply(CurUrl(r))])]

\* the product branch handing the shortener the URL of the message instead
\* of the affiliate link
Found_ShortenRaw(r, product, outcome) ==
    LET base == [r EXCEPT !.call = None, !.product = product,
                          !.affiliate_link = None,
                          !.short_link = None, !.last_short = None,
                          !.consults = Append(@, [i |-> r.i, h |-> r.h,
                                                  outcome |-> outcome,
                                                  found |-> TRUE])]
        link == AliCreateAffiliateLink(config_manager, CurUrl(r))
    IN  IF r.h = 1
        THEN [base EXCEPT !.pc = "shorten_call",
                          !.call = Some(ShortenRequest(CurUrl(r))),
                          !.affiliate_link = Some(link),
                          !.reads = Append(@, <<"aliexpress_aff_id", loads>>)]
        ELSE [base EXCEPT !.pc = "amazon_link",
                          !.link_country = config_manager.amazon_country,
                          !.reads = Append(@, <<"amazon_country", loads>>)]

\* lines 170-172: a product was returned; create the affiliate link from
\* the live configuration and call the shortener
\* The AliExpress link reads one configuration value (line 83).  The Amazon
\* link reads two, the country and then the tag (line 133); the reload
\* thread may run between the two reads, so the second is a step of its own.
Found(r, product, outcome) ==
    LET base == [r EXCEPT !.call = None, !.product = product,
                          !.affiliate_link = None,
                          !.short_link = None, !.last_short = None,
                          !.consults = Append(@, [i |-> r.i, h |-> r.h,
                                                  outcome |-> outcome,
                                                  found |-> TRUE])]
        link == AliCreateAffiliateLink(config_manager, CurUrl(r))
    IN  IF r.h = 1
        THEN [base EXCEPT !.pc = "shorten_call",
                          !.call = Some(ShortenRequest(link)),
                          !.affiliate_link = Some(link),
                          !.reads = Append(@, <<"aliexpress_aff_id", loads>>)]
        ELSE [base EXCEPT !.pc = "amazon_link",
                          !.link_country = config_manager.amazon_country,
                          !.reads = Append(@, <<"amazon_country", loads>>)]

AfterLookup(r, product, outcome) ==
    IF product # None THEN Found(r, product, outcome) ELSE NoProduct(r, outcome)

\* lines 202-207: the guards of modify_link, the exclusion filter included
ModifyLink(u, update) ==
    /\ u \in env.workers
    /\ update \in env.updates
    /\ unit[u].pc \in {"idle", "done"}
    /\ budget > 0
    /\ budget' = budget - 1
    /\ unit' = [unit EXCEPT ![u] =
          IF ~Truthy(update.text) \/ update.user = None
          THEN [IdleUnit EXCEPT !.pc = "done", !.update = Some(update)]
          ELSE IF is_user_excluded(config_manager, update.user[1])
          THEN [IdleUnit EXCEPT !.pc = "done", !.update = Some(update),
                                !.excluded = Some(TRUE),
                                !.reads = <<<<"excluded_users", loads>>>>]
          ELSE [IdleUnit EXCEPT !.pc = "process", !.update = Some(update),
                                !.excluded = Some(FALSE),
                                !.reads = <<<<"excluded_users", loads>>>>]]
    /\ UNCHANGED <<config_manager, loads, reload_thread, timers, env, probe>>

\* lines 161-164, first part: extract the URLs and start constructing the
\* AliExpress handler, which copies the key (line 36)
StartProcessing(u) ==
    /\ unit[u].pc = "process"
    /\ unit' = [unit EXCEPT ![u] =
          [@ EXCEPT !.pc = "ali_init",
                    !.urls = FindAllUrls(prepare_message(unit[u].update[1].text)),
                    !.ali = Some([api_key |-> config_manager.aliexpress_app_key,
                                  secret |-> None]),
                    !.reads = Append(@, <<"aliexpress_app_key", loads>>)]]
    /\ UNCHANGED <<config_manager, loads, reload_thread, timers, budget, env, probe>>

\* line 164, second part: the AliExpress handler copies the secret (line
\* 37), a read of its own that a reload may precede; the construction of
\* the Amazon handler follows
FinishHandlers(u) ==
    /\ unit[u].pc = "ali_init"
    /\ unit' = [unit EXCEPT ![u] =
          [@ EXCEPT !.pc = "amazon_init",
                    !.ali = Some([@[1] EXCEPT
                                    !.secret = config_manager.aliexpress_app_secret]),
                    !.reads = Append(@, <<"aliexpress_app_secret", loads>>)]]
    /\ UNCHANGED <<config_manager, loads, reload_thread, timers, budget, env, probe>>

\* lines 95-100: the keyword arguments of AmazonAPI(...) in the order they
\* are evaluated, each with the configuration attribute it reads
AmazonArgs ==
    << <<"access_key",  "amazon_access_key">>,
       <<"secret_key",  "amazon_secret_key">>,
       <<"partner_tag", "amazon_affiliate_tag">>,
       <<"country",     "amazon_country">> >>

\* the client before any of its arguments has been evaluated
NoAmazonArgs ==
    [access_key |-> None, secret_key |-> None, partner_tag |-> None, country |-> None]

\* lines 96-99: AmazonAPIHandler.__init__ evaluates the next argument of
\* the API client, a configuration read of its own that a reload may
\* precede; after the last one the client exists and the loops of line 166
\* begin
AmazonInit(u) ==
    LET r == unit[u]
        k == r.nargs + 1
        sofar == IF r.amazon = None THEN NoAmazonArgs ELSE r.amazon[1]
    IN  /\ r.pc = "amazon_init"
        /\ unit' = [unit EXCEPT ![u] =
              [r EXCEPT !.pc = IF k = Len(AmazonArgs) THEN "loop" ELSE "amazon_init",
                        !.i = IF k = Len(AmazonArgs) THEN 1 ELSE @,
                        !.h = IF k = Len(AmazonArgs) THEN 1 ELSE @,
                        !.nargs = k,
                        !.amazon = Some([sofar EXCEPT ![AmazonArgs[k][1]] =
                                            config_manager[AmazonArgs[k][2]]]),
                        !.reads = Append(@, <<AmazonArgs[k][2], loads>>)]]
        /\ UNCHANGED <<config_manager, loads, reload_thread, timers, budget, env, probe>>

\* lines 166-169: one step of the two nested loops, up to the vendor call;
\* now is what the clock shows when the AliExpress request is built
Dispatch(u) ==
    LET r == unit[u]
    IN  /\ r.pc = "loop"
        /\ \E now \in env.clock : unit' = [unit EXCEPT ![u] =
              IF r.i > Len(r.urls) THEN [r EXCEPT !.pc = "done"]
              ELSE IF r.h > NumHandlers THEN [r EXCEPT !.i = @ + 1, !.h = 1]
              ELSE IF ~CanHandle(r.h, CurUrl(r)) THEN [r EXCEPT !.h = @ + 1]
              ELSE IF r.h = 1
              THEN IF extract_product_id(CurUrl(r)) = None
                   THEN NoProduct(r, [kind |-> "no_id"])
                   ELSE [r EXCEPT !.pc = "ali_call",
                            !.call = Some(AliRequest(r.ali[1],
                                          extract_product_id(CurUrl(r))[1], now))]
              ELSE IF extract_asin(CurUrl(r)) = None
                   THEN NoProduct(r, [kind |-> "no_asin"])
                   ELSE [r EXCEPT !.pc = "amazon_call",
                            !.call = Some(AmazonRequest(r.amazon[1],
                                          extract_asin(CurUrl(r))[1]))]]
        /\ UNCHANGED <<config_manager, loads, reload_thread, timers, budget, env, probe>>

\* lines 58-76: the AliExpress exchange ends with outcome
AliRespond(u, outcome) ==
    /\ unit[u].pc = "ali_call"
    /\ outcome \in env.ali
    /\ unit' = [unit EXCEPT ![u] = AfterLookup(unit[u], AliParse(outcome), outcome)]
    /\ UNCHANGED <<config_manager, loads, reload_thread, timers, budget, env, probe>>

\* lines 111-124: the Amazon exchange ends with outcome
AmazonRespond(u, outcome) ==
    /\ unit[u].pc = "amazon_call"
    /\ outcome \in env.amazon
    /\ unit' = [unit EXCEPT ![u] = AfterLookup(unit[u], AmazonParse(outcome), outcome)]
    /\ UNCHANGED <<config_manager, loads, reload_thread, timers, budget, env, probe>>

\* line 133, second read: the tag; the link is complete and goes to the
\* shortener (line 172)
AmazonLinkTag(u) ==
    LET r == unit[u]
        link == AmazonLinkFrom(r.link_country, config_manager.amazon_affiliate_tag,
                               CurUrl(r))
    IN  /\ r.pc = "amazon_link"
        /\ unit' = [unit EXCEPT ![u] =
              [r EXCEPT !.pc = "shorten_call",
                        !.call = Some(ShortenRequest(link)),
                        !.affiliate_link = Some(link),
                        !.reads = Append(@, <<"amazon_affiliate_tag", loads>>)]]
        /\ UNCHANGED <<config_manager, loads, reload_thread, timers, budget, env, probe>>

\* the product kept in a module-level variable that every unit assigns:
\* the reply is composed from the product found last by any unit
SharedProduct(r) ==
    LET others == {v \in Units : unit[v] # r /\ unit[v].product # None}
    IN  IF others = {} THEN r.product
        ELSE unit[CHOOSE v \in others : TRUE].product

Shortened_SharedProduct(r, outcome) ==
    LET short == shorten_url(r.affiliate_link[1], outcome)
    IN  [r EXCEPT !.pc = "reply_product",
                  !.call = None,
                  !.short_link = Some(short),
                  !.last_short = Some(outcome),
                  !.shorts = Append(@, outcome),
                  !.sends = Append(@, [i |-> r.i, outcome |-> "pending",
                                       msg |-> ProductReply(SharedProduct(r)[1], short)])]

\* lines 172-185: the shortener exchange ends with outcome; the reply is
\* composed and issued, and the coroutine waits for it at the await of
\* line 183 or 185, where other tasks and the reload thread run
Shortened(r, outcome) ==
    LET short == shorten_url(r.affiliate_link[1], outcome)
    IN  [r EXCEPT !.pc = "reply_product",
                  !.call = None,
                  !.short_link = Some(short),
                  !.last_short = Some(outcome),
                  !.shorts = Append(@, outcome),
                  !.sends = Append(@, [i |-> r.i, outcome |-> "pending",
                                       msg |-> ProductReply(r.product[1], short)])]

ShortenRespond(u, outcome) ==
    /\ unit[u].pc = "shorten_call"
    /\ outcome \in env.shortener
    /\ unit' = [unit EXCEPT ![u] = Shortened(unit[u], outcome)]
    /\ UNCHANGED <<config_manager, loads, reload_thread, timers, budget, env, probe>>

\* the awaited reply has ended: the call the coroutine waits for is the
\* last of r.sends and now carries its outcome; a reply that was sent is
\* one the chat received
Ended(r, sent) ==
    LET k == Len(r.sends)
        closed == [r EXCEPT !.sends[k].outcome = sent]
    IN  IF sent = "sent"
        THEN [closed EXCEPT !.replies = Append(@, [i |-> r.sends[k].i,
                                                   msg |-> r.sends[k].msg])]
        ELSE closed

\* lines 183-188: the awaited reply is in no try; when it raises, the
\* exception leaves process_link_handlers and modify_link and the pass is
\* over
Raised(r) == [r EXCEPT !.pc = "done", !.raised = TRUE]

\* line 188 has ended: there is no break on this branch, the inner loop
\* goes on with the next handler
RepliedRaw(r, sent) ==
    IF sent = "sent"
    THEN [Ended(r, sent) EXCEPT !.pc = "loop", !.h = @ + 1]
    ELSE Raised(Ended(r, sent))

\* the product branch without its break: the reply is sent and the inner
\* loop goes on with the next handler for the same URL
RepliedProduct_NoBreak(r, sent) ==
    IF sent = "sent"
    THEN [Ended(r, sent) EXCEPT !.pc = "loop", !.h = @ + 1]
    ELSE Raised(Ended(r, sent))

\* line 183 or 185 has ended: break (line 186), the outer loop goes on
\* with the next URL
RepliedProduct(r, sent) ==
    IF sent = "sent"
    THEN [Ended(r, sent) EXCEPT !.pc = "loop", !.i = @ + 1, !.h = 1]
    ELSE Raised(Ended(r, sent))

\* the reply the coroutine awaits ends: it was sent, or the call raised
ReplyEnds(u, sent) ==
    /\ unit[u].pc \in {"reply_raw", "reply_product"}
    /\ sent \in env.telegram
    /\ unit' = [unit EXCEPT ![u] =
          IF unit[u].pc = "reply_raw"
          THEN RepliedRaw(unit[u], sent)
          ELSE RepliedProduct(unit[u], sent)]
    /\ UNCHANGED <<config_manager, loads, reload_thread, timers, budget, env, probe>>

\* a pending call that was given a timeout raises when the timeout expires
TimeoutFires(u) ==
    LET r == unit[u]
    IN  /\ r.call # None
        /\ r.call[1].timeout # None
        /\ unit' = [unit EXCEPT ![u] =
              IF r.pc = "ali_call"
              THEN AfterLookup(r, AliParse([kind |-> "timeout"]),
                               [kind |-> "timeout"])
              ELSE IF r.pc = "amazon_call"
              THEN AfterLookup(r, AmazonParse([kind |-> "timeout"]),
                               [kind |-> "timeout"])
              ELSE Shortened(r, [kind |-> "timeout"])]
        /\ UNCHANGED <<config_manager, loads, reload_thread, timers, budget, env, probe>>

\* ------------------------------------------------------------------------
\* Periodic reload (lines 215-217), run by reload_thread and by each timer
\* ------------------------------------------------------------------------
\* load_configuration succeeded: the configuration is replaced wholesale
LoadConfiguration(n) == ConfigOf(n + 1)

\* line 216: load_configuration returns (ok) or raises
ReloadBody(ok) ==
    IF ok
    THEN /\ loads < env.reloads
         /\ config_manager' = LoadConfiguration(loads)
         /\ loads' = loads + 1
    ELSE UNCHANGED <<config_manager, loads>>

ReloadFromThread(ok) ==
    /\ reload_thread = "ready"
    /\ ReloadBody(ok)
    /\ reload_thread' = IF ok THEN "finished" ELSE "failed"
    /\ timers' = IF ok THEN timers + 1 ELSE timers
    /\ UNCHANGED <<unit, budget, env, probe>>

\* a timer that is not used up by firing: each run adds a timer to the
\* pending ones
ReloadFromTimer_Accumulate(ok) ==
    /\ timers > 0
    /\ ReloadBody(ok)
    /\ timers' = IF ok THEN timers + 1 ELSE timers
    /\ UNCHANGED <<reload_thread, unit, budget, env, probe>>

\* a pending timer fires (it is used up) and runs lines 216-217
ReloadFromTimer(ok) ==
    /\ timers > 0
    /\ ReloadBody(ok)
    /\ timers' = IF ok THEN timers ELSE timers - 1
    /\ UNCHANGED <<reload_thread, unit, budget, env, probe>>

Next ==
    \/ \E u \in Units, update \in Updates : ModifyLink(u, update)
    \/ \E u \in Units : StartProcessing(u)
    \/ \E u \in Units : FinishHandlers(u)
    \/ \E u \in Units : AmazonInit(u)
    \/ \E u \in Units : AmazonLinkTag(u)
    \/ \E u \in Units : Dispatch(u)
    \/ \E u \in Units, outcome \in AliOutcomes : AliRespond(u, outcome)
    \/ \E u \in Units, outcome \in AmazonOutcomes : AmazonRespond(u, outcome)
    \/ \E u \in Units, outcome \in ShortenerOutcomes : ShortenRespond(u, outcome)
    \/ \E u \in Units : TimeoutFires(u)
    \/ \E u \in Units, sent \in ReplyOutcomes : ReplyEnds(u, sent)
    \/ \E ok \in BOOLEAN : ReloadFromThread(ok)
    \/ \E ok \in BOOLEAN : ReloadFromTimer(ok)

Spec == Init /\ [][Next]_vars

\* The steps of a processing unit are taken (the event loop runs it), and a
\* call that was given a timeout raises when the service stays silent.
\* Nothing obliges an external service to answer.  An awaited reply ends:
\* the request object that Application.builder() makes (lines 246-248, no
\* request settings given) bounds the time of every call to the Bot API.
Fairness ==
    \A u \in Units :
        /\ WF_vars(\E sent \in ReplyOutcomes : ReplyEnds(u, sent))
        /\ WF_vars(StartProcessing(u))
        /\ WF_vars(FinishHandlers(u))
        /\ WF_vars(AmazonInit(u))
        /\ WF_vars(AmazonLinkTag(u))
        /\ WF_vars(Dispatch(u))
        /\ WF_vars(TimeoutFires(u))

FairSpec == Init /\ [][Next]_vars /\ Fairness

\* ------------------------------------------------------------------------
\* The same program under a transport that runs several units at a time
\* (concurrent_updates enabled): the units interleave at every step, and
\* so does the load of reload_thread
\* ------------------------------------------------------------------------
ConcEnv ==
    [ workers   |-> Units,
      updates   |-> { [text |-> Some(<<"s","e","e"," ">> \o UrlAmazon \o <<" ","o","k">>),
                       user |-> Some(UserAnn)],
                      [text |-> Some(UrlAli), user |-> Some(UserLater)] },
      ali       |-> { [kind |-> "conn_error"],
                      [kind |-> "json", data |-> JDict([result |-> JDict(AliResultPlain)])] },
      amazon    |-> { AmzResult(Some([items |-> Some(<<AmzItem(AmzTitle, AmzImage,
                                        AmzOffers(Some(<<"8">>)), AmzFeatures)>>)])) },
      shortener |-> { [kind |-> "conn_error"],
                      [kind |-> "response", status |-> 200,
                       text |-> S_http \o <<"t",".","c","o","/","k">>] },
      clock     |-> { <<"1","7">> },
      telegram  |-> ReplyOutcomes,
      reloads   |-> 1 ]

InitConc ==
    /\ config_manager = ConfigOf(0)
    /\ loads = 0
    /\ reload_thread = "ready"
    /\ timers = 0
    /\ unit = [u \in Units |-> IdleUnit]
    /\ budget = MaxMsgs
    /\ env = ConcEnv
    /\ probe = None

SpecConc == InitConc /\ [][Next]_vars

\* ------------------------------------------------------------------------
\* Direct calls of create_affiliate_link, on URLs of every shape
\* ------------------------------------------------------------------------
LinkHosts == {S_http \o S_aliexpress, S_https \o S_amazon, S_http \o <<"e","x",".","o","r","g">>}

LinkPaths ==
    { << >>, <<"/","x">>, S_item, <<"/","i","t","e","m","/",".","h","t","m","l">>,
      <<"/","i","t","e","m","/","1","2",".","h","t","m">>,
      <<"/","d","p">> \o S_asin, <<"/","d","p">> \o S_asin \o <<"?","r","=","1">>,
      <<"/","d","p">> \o S_asin \o <<"D">>,
      <<"/","d","p","/","B","0","0","0","1","2","3","A","B">>,
      <<"/","d","p","/","b","0","0","0","1","2","3","a","b","c">>,
      <<"/","d","p","/","B","0","0","0","1","2","U+0663","A","B","C">>,
      S_itemArabic,
      S_item \o <<"?","u","=">> \o S_amazon \o S_asin \o <<"/","r">> }

LinkUrls == {host \o path : host \in LinkHosts, path \in LinkPaths}

InitLink ==
    /\ \E n \in 0..MaxReloads : config_manager = ConfigOf(n) /\ loads = n
    /\ reload_thread = "finished"
    /\ timers = 1
    /\ unit = [u \in Units |-> IdleUnit]
    /\ budget = MaxMsgs
    /\ env = FullEnv
    /\ probe \in {Some([h |-> h, url |-> url, out |-> None]) :
                     h \in 1..NumHandlers, url \in LinkUrls}

\* handler.create_affiliate_link(url) against the current configuration
CallCreateAffiliateLink ==
    /\ probe # None
    /\ probe[1].out = None
    /\ probe' = Some([probe[1] EXCEPT
                        !.out = Some(CreateAffiliateLink(probe[1].h, config_manager,
                                                         probe[1].url))])
    /\ UNCHANGED <<config_manager, loads, reload_thread, timers, unit, budget, env>>

NextLink == CallCreateAffiliateLink

SpecLink == InitLink /\ [][NextLink]_vars

\* ------------------------------------------------------------------------
\* Direct calls of _generate_signature, on dicts filled in every order, and
\* of the request construction of get_product_info
\* ------------------------------------------------------------------------
SignHandlers ==
    {[api_key |-> k, secret |-> x] :
        k \in {Some(<<"k","0">>), Some(<<"K">>), Some(<< >>)},
        x \in {Some(<<"s","0">>), Some(<<"s","1">>)}}

SignPaths == {AliApiPath, <<"/","p">>}

ProductIds == {<<"1","2">>, <<"7">>}

\* the orders in which three items can be inserted
Orders3 == {o \in [1..3 -> 1..3] : \A a, b \in 1..3 : o[a] = o[b] => a = b}

SignProbes ==
    {[kind |-> "sign", handler |-> hd, api_path |-> path,
      params |-> [n \in 1..3 |-> AliParams(hd, pid, now)[o[n]]], out |-> None] :
        hd \in SignHandlers,
        path \in SignPaths, pid \in ProductIds, now \in Timestamps, o \in Orders3}

RequestProbes ==
    {[kind |-> "request", handler |-> hd, product_id |-> pid, now |-> now,
      out |-> None] :
        hd \in SignHandlers, pid \in ProductIds, now \in Timestamps}

InitSign ==
    /\ config_manager = ConfigOf(0)
    /\ loads = 0
    /\ reload_thread = "finished"
    /\ timers = 1
    /\ unit = [u \in Units |-> IdleUnit]
    /\ budget = MaxMsgs
    /\ env = FullEnv
    /\ probe \in {Some(pr) : pr \in SignProbes} \cup {Some(pr) : pr \in RequestProbes}

\* handler._generate_signature(api_path, params)
CallGenerateSignature ==
    /\ probe # None
    /\ probe[1].kind = "sign"
    /\ probe[1].out = None
    /\ probe' = Some([probe[1] EXCEPT
                        !.out = Some(generate_signature(probe[1].handler,
                                                        probe[1].api_path,
                                                        probe[1].params))])
    /\ UNCHANGED <<config_manager, loads, reload_thread, timers, unit, budget, env>>

\* lines 49-58 of handler.get_product_info: the request that is sent
CallBuildRequest ==
    /\ probe # None
    /\ probe[1].kind = "request"
    /\ probe[1].out = None
    /\ probe' = Some([probe[1] EXCEPT
                        !.out = Some(AliRequest(probe[1].handler, probe[1].product_id,
                                                probe[1].now))])
    /\ UNCHANGED <<config_manager, loads, reload_thread, timers, unit, budget, env>>

NextSign == CallGenerateSignature \/ CallBuildRequest

SpecSign == InitSign /\ [][NextSign]_vars

\* ========================================================================
\* Properties
\* ========================================================================
\* URL number i of the message of r has been dealt with completely
Processed(r, i) == i \in 1..Len(r.urls) /\ (i < r.i \/ r.pc = "done")

\* the replies sent while URL number i was being processed, in order
RepliesFor(r, i) == SelectSeq(r.replies, LAMBDA e : e.i = i)

\* the replies among them that echo the raw URL
RawRepliesFor(r, i) ==
    SelectSeq(r.replies, LAMBDA e : e.i = i /\ e.msg = RawReply(r.urls[i]))

\* the handlers consulted (asked for product info) for URL number i
ConsultsFor(r, i) == SelectSeq(r.consults, LAMBDA c : c.i = i)

NoHandlerMatches(url) == \A h \in 1..NumHandlers : ~CanHandle(h, url)

FirstMatch(url) ==
    CHOOSE h \in 1..NumHandlers :
        CanHandle(h, url) /\ \A g \in 1..(h - 1) : ~CanHandle(g, url)

\* C1: every extracted URL that no handler can handle is answered with a
\* reply that echoes the raw URL; it is never dropped without a reply.
C1_NoMatchEchoed ==
    \A u \in Units :
        \A i \in 1..Len(unit[u].urls) :
            (Processed(unit[u], i) /\ NoHandlerMatches(unit[u].urls[i]))
                => \E k \in 1..Len(unit[u].replies) :
                       /\ unit[u].replies[k].i = i
                       /\ Contains(unit[u].replies[k].msg.text, unit[u].urls[i])

\* C2: only the first handler that can handle a URL is ever asked for
\* product info; if it returns no product the raw URL is emitted exactly
\* once and no later handler is consulted for that URL.
C2_FirstMatchCommitment ==
    \A u \in Units :
        \A k \in 1..Len(unit[u].consults) :
            LET c == unit[u].consults[k]
            IN  /\ c.h = FirstMatch(unit[u].urls[c.i])
                /\ (Processed(unit[u], c.i) /\ ~c.found)
                       => Len(RawRepliesFor(unit[u], c.i)) = 1

\* membership of a sender in the excluded set: by numeric id or by username
InExcludedSet(cfg, user) ==
    \/ <<"id", user.id>> \in cfg.excluded_users
    \/ /\ user.username # None
       /\ <<"name", user.username[1]>> \in cfg.excluded_users

\* the update of r got past the first two guards of modify_link
ReachedFilter(r) ==
    /\ r.update # None
    /\ Truthy(r.update[1].text)
    /\ r.update[1].user # None

\* C3: a message whose sender's id or username is in the excluded set (as
\* configured when the filter ran) gets no reply, no vendor lookup and no
\* shortener call, whatever URLs it contains; a sender without a username
\* is excluded by id only.
C3_ExcludedSilent ==
    \A u \in Units :
        ReachedFilter(unit[u]) =>
            LET r == unit[u]
                user == r.update[1].user[1]
                cfg == ConfigOf(r.reads[1][2])
            IN  /\ InExcludedSet(cfg, user)
                       => /\ r.pc = "done"
                          /\ r.replies = << >>
                          /\ r.consults = << >>
                          /\ r.call = None
                          /\ r.affiliate_link = None
                /\ (user.username = None /\ <<"id", user.id>> \notin cfg.excluded_users)
                       => r.excluded = Some(FALSE)

\* an excluded-by-username sender posted vendor URLs and got nothing back
C3_Witness ==
    \E u \in Units :
        /\ ReachedFilter(unit[u])
        /\ unit[u].pc = "done"
        /\ unit[u].update[1].user[1] = UserByName
        /\ Len(FindAllUrls(unit[u].update[1].text[1])) = 2
        /\ AmazonCanHandle(FindAllUrls(unit[u].update[1].text[1])[2])
        /\ unit[u].excluded = Some(TRUE)
        /\ unit[u].replies = << >>

\* a vendor lookup outcome that is a failure: the call raised, the status
\* was not 2xx, the body was malformed, 'result' was missing, a nested
\* access failed, or no product identifier could be extracted
AliLookupFailed(o) ==
    \/ o.kind \in {"conn_error", "timeout", "http_error", "bad_json", "no_id"}
    \/ /\ o.kind = "json"
       /\ \/ o.data.t # "dict"
          \/ "result" \notin DOMAIN o.data.d
          \/ o.data.d.result.t # "dict"

AmazonHasItem(o) ==
    /\ o.kind = "result"
    /\ o.result.items_result # None
    /\ o.result.items_result[1].items # None
    /\ Len(o.result.items_result[1].items[1]) > 0

AmazonItemOf(o) == o.result.items_result[1].items[1][1]

AmazonLookupFailed(o) ==
    \/ o.kind \in {"api_error", "timeout", "no_asin"}
    \/ o.kind = "result" /\ ~AmazonHasItem(o)
    \/ /\ AmazonHasItem(o)
       /\ \/ AmzTitleRaises(AmazonItemOf(o))
          \/ AmzImageRaises(AmazonItemOf(o))
          \/ AmzPriceRaises(AmazonItemOf(o))
          \/ AmzDescriptionRaises(AmazonItemOf(o))

LookupFailed(c) ==
    IF c.h = 1 THEN AliLookupFailed(c.outcome) ELSE AmazonLookupFailed(c.outcome)

\* C4: whatever way the vendor lookup for a URL fails, get_product_info
\* returns absent, the reply for that URL is the raw URL (and nothing
\* else), and processing goes on through every later URL to the end.
C4_FailureContained ==
    \A u \in Units :
        /\ \A k \in 1..Len(unit[u].consults) :
               LET c == unit[u].consults[k]
               IN  LookupFailed(c) =>
                       /\ ~c.found
                       /\ Processed(unit[u], c.i) =>
                              RepliesFor(unit[u], c.i)
                                  = <<[i |-> c.i, msg |-> RawReply(unit[u].urls[c.i])]>>
        /\ (unit[u].pc = "done" /\ unit[u].excluded = Some(FALSE))
               => unit[u].i = Len(unit[u].urls) + 1

\* index of the URL for which a product was found most recently
LastFoundIndex(r) ==
    LET ks == {k \in 1..Len(r.consults) : r.consults[k].found}
    IN  r.consults[CHOOSE k \in ks : \A k2 \in ks : k2 <= k].i

\* the product reply for URL number i
IsProductReplyFor(e, i) == e.i = i /\ e.msg.parse_mode # None

ShortenerSaidOk(o) == o.kind = "response" /\ o.status = 200

\* C5: the shortener never fails the pipeline; on a non-200 status or a
\* network error the link used in the reply is exactly the affiliate link
\* it was given, and only a 200 response replaces it by the response body.
\* The composed reply is the one handed to the reply call (r.sends).
C5_ShortenerFallback ==
    \A u \in Units :
        unit[u].last_short # None =>
            LET r == unit[u]
                o == r.last_short[1]
            IN  /\ r.pc # "shorten_call"
                /\ r.short_link = (IF ShortenerSaidOk(o) THEN Some(o.text)
                                   ELSE r.affiliate_link)
                /\ \E k \in 1..Len(r.sends) :
                       /\ IsProductReplyFor(r.sends[k], LastFoundIndex(r))
                       /\ EndsWith(r.sends[k].msg.text,
                                   <<"U+1F517", " ">> \o r.short_link[1])
                       /\ ~ShortenerSaidOk(o)
                              => Contains(r.sends[k].msg.text, r.affiliate_link[1])

\* the shortening service answered 500 and the reply carries the affiliate link
C5_Witness ==
    \E u \in Units :
        /\ unit[u].last_short = Some([kind |-> "response", status |-> 500,
                                      text |-> <<"E","r","r">>])
        /\ unit[u].short_link = unit[u].affiliate_link
        /\ \E k \in 1..Len(unit[u].replies) :
               /\ IsProductReplyFor(unit[u].replies[k], LastFoundIndex(unit[u]))
               /\ EndsWith(unit[u].replies[k].msg.text, unit[u].affiliate_link[1])

\* an Amazon item that has a title and an image but lacks an offer listing
\* (no price) or feature bullets (no description)
LacksPriceOrFeatures(item) ==
    /\ ~AmzTitleRaises(item)
    /\ ~AmzImageRaises(item)
    /\ \/ item.offers = None
       \/ item.offers[1].listings = None
       \/ Len(item.offers[1].listings[1]) = 0
       \/ item.item_info[1].features = None
    /\ item.item_info[1].features # None
           => /\ item.item_info[1].features[1].display_values # None
              /\ Len(item.item_info[1].features[1].display_values[1]) > 0

\* C8: for a found Amazon item without an offer listing or without feature
\* bullets, get_product_info still returns a ProductInfo.
C8_AmazonMissingFieldTolerated ==
    \A u \in Units :
        \A k \in 1..Len(unit[u].consults) :
            LET c == unit[u].consults[k]
            IN  (c.h = 2 /\ AmazonHasItem(c.outcome)
                         /\ LacksPriceOrFeatures(AmazonItemOf(c.outcome)))
                    => c.found

\* the text of the product reply composed for the most recently found
\* product
LastProductText(r) ==
    LET k == CHOOSE k \in 1..Len(r.sends) :
                 IsProductReplyFor(r.sends[k], LastFoundIndex(r))
    IN  r.sends[k].msg.text

ProductFields == {"title", "image_url", "price", "old_price", "description"}

\* C10: an absent field of a ProductInfo contributes no text to the reply
\* (no placeholder is rendered for it), and the previous-price line is
\* there if and only if old_price is present.
C10_AbsentFieldsOmitted ==
    \A u \in Units :
        unit[u].last_short # None =>
            LET r == unit[u]
                p == r.product[1]
            IN  /\ (\E f \in ProductFields : p[f] = None)
                       => ~Contains(LastProductText(r), <<"N","o","n","e">>)
                /\ Contains(LastProductText(r), <<"A","n","t","e","s",":">>)
                       <=> p.old_price # None

\* C6 (as claimed): within one pass every configuration value used comes
\* from one and the same configuration version.
C6_OneVersionPerPass ==
    \A u \in Units :
        \A a, b \in 1..Len(unit[u].reads) :
            unit[u].reads[a][2] = unit[u].reads[b][2]

\* the configuration version from which a pass last read the value what
VersionRead(r, what) ==
    LET ks == {k \in 1..Len(r.reads) : r.reads[k][1] = what}
    IN  r.reads[CHOOSE k \in ks : \A k2 \in ks : k2 <= k][2]

HasRead(r, what) == \E k \in 1..Len(r.reads) : r.reads[k][1] = what

\* the consult that found the most recent product
LastFound(r) ==
    LET ks == {k \in 1..Len(r.consults) : r.consults[k].found}
    IN  r.consults[CHOOSE k \in ks : \A k2 \in ks : k2 <= k]

\* C6 (amended): each configuration value used in a pass is the value of
\* the version that was current when the code read it -- the excluded set
\* when the filter ran, the AliExpress key and the secret when the handler
\* copied each of them, each argument of the Amazon client when the handler
\* constructor evaluated it, the affiliate id, the country and the tag when
\* the link was created -- and the versions read never decrease along the pass
\* and never exceed the loads done: they are one version exactly when no
\* reload falls between the first read and the last.
C6_ReadsFollowReloads ==
    \A u \in Units :
        LET r == unit[u]
        IN  /\ \A a, b \in 1..Len(r.reads) : a <= b => r.reads[a][2] <= r.reads[b][2]
            /\ \A a \in 1..Len(r.reads) : r.reads[a][2] <= loads
            /\ r.excluded # None
                   => r.excluded[1]
                        = InExcludedSet(ConfigOf(VersionRead(r, "excluded_users")),
                                        r.update[1].user[1])
            /\ HasRead(r, "aliexpress_app_key")
                   => /\ r.ali[1].api_key
                           = <<<<"k", DigitChar(VersionRead(r, "aliexpress_app_key"))>>>>
                      /\ r.pc = "ali_call"
                             => Param(r.call[1].params, K_app_key) = r.ali[1].api_key
            /\ HasRead(r, "aliexpress_app_secret")
                   => r.ali[1].secret
                        = <<<<"s", DigitChar(VersionRead(r, "aliexpress_app_secret"))>>>>
            /\ \A k \in 1..r.nargs :
                   /\ r.reads[3 + k][1] = AmazonArgs[k][2]
                   /\ r.amazon[1][AmazonArgs[k][1]]
                        = ConfigOf(r.reads[3 + k][2])[AmazonArgs[k][2]]
            /\ (r.affiliate_link # None /\ LastFound(r).h = 1)
                   => r.affiliate_link[1]
                        = r.urls[LastFound(r).i] \o <<"?","a","f","f","_","i","d","=">>
                          \o <<"f", DigitChar(VersionRead(r, "aliexpress_aff_id"))>>
            /\ (r.affiliate_link # None /\ LastFound(r).h = 2)
                   => r.affiliate_link[1]
                        = <<"h","t","t","p","s",":","/","/","w","w","w",".",
                            "a","m","a","z","o","n",".">>
                          \o <<"e", DigitChar(VersionRead(r, "amazon_country"))>>
                          \o <<"/","d","p","/">>
                          \o extract_asin(r.urls[LastFound(r).i])[1]
                          \o <<"?","t","a","g","=">>
                          \o <<"t", DigitChar(VersionRead(r, "amazon_affiliate_tag"))>>

\* a pass whose handler copied the key under one version and the secret
\* under the next, whose Amazon client was made from arguments of two
\* versions, and whose link carries the affiliate id of the last
C6_Witness ==
    \E u \in Units :
        /\ unit[u].affiliate_link # None
        /\ LastFound(unit[u]).h = 1
        /\ VersionRead(unit[u], "aliexpress_app_key") = 0
        /\ VersionRead(unit[u], "aliexpress_app_secret") = 1
        /\ VersionRead(unit[u], "aliexpress_aff_id") = 2
        /\ unit[u].ali[1] = [api_key |-> ConfigOf(0).aliexpress_app_key,
                             secret |-> ConfigOf(1).aliexpress_app_secret]
        /\ unit[u].amazon[1].access_key = ConfigOf(1).amazon_access_key
        /\ unit[u].amazon[1].country = ConfigOf(2).amazon_country

\* C7: every processing unit that starts on a message eventually finishes,
\* even when an external service never responds, because every vendor call
\* and every shortener call is bounded by a timeout.
C7_UnitsFinish ==
    \A u \in Units : (unit[u].pc = "process") ~> (unit[u].pc = "done")

\* the identifier a handler's product lookup needs cannot be extracted
NoIdentifier(h, url) ==
    IF h = 1 THEN extract_product_id(url) = None ELSE extract_asin(url) = None

\* C9 (as claimed): for every handler, when the product identifier cannot
\* be extracted from the URL, create_affiliate_link returns the URL unchanged.
C9_DegradesToOriginal ==
    (probe # None /\ probe[1].out # None /\ NoIdentifier(probe[1].h, probe[1].url))
        => probe[1].out = Some(probe[1].url)

\* C9 (amended): create_affiliate_link always returns a link; Amazon's
\* returns the URL unchanged when no ASIN can be extracted and the rebuilt
\* /dp/<ASIN>?tag= link otherwise; AliExpress's needs no identifier and
\* always returns the URL with ?aff_id=<id> appended, product id or not.
C9_LinkNeverFails ==
    (probe # None /\ probe[1].out # None) =>
        LET h == probe[1].h
            url == probe[1].url
            out == probe[1].out[1]
        IN  IF h = 2
            THEN IF extract_asin(url) = None
                 THEN out = url
                 ELSE /\ IsPrefixAt(<<"h","t","t","p","s",":","/","/","w","w","w",".",
                                      "a","m","a","z","o","n",".">>, out, 1)
                      /\ EndsWith(out, <<"/","d","p","/">> \o extract_asin(url)[1]
                                       \o <<"?","t","a","g","=">>
                                       \o config_manager.amazon_affiliate_tag[1])
            ELSE /\ IsPrefixAt(url, out, 1)
                 /\ SubSeq(out, Len(url) + 1, Len(out))
                        = <<"?","a","f","f","_","i","d","=">>
                          \o config_manager.aliexpress_aff_id[1]

\* the Amazon handler was given an Amazon URL without an ASIN and gave it back
C9_Witness ==
    /\ probe # None
    /\ probe[1].h = 2
    /\ AmazonCanHandle(probe[1].url)
    /\ extract_asin(probe[1].url) = None
    /\ probe[1].out = Some(probe[1].url)

\* the product replies sent for URL number i
ProductRepliesFor(r, i) == SelectSeq(r.replies, LAMBDA e : IsProductReplyFor(e, i))

\* C11: each extracted URL occurrence leads to at most one product reply,
\* and once a handler has returned a product for a URL no further handler
\* is consulted for that URL.
C11_AtMostOneProduct ==
    \A u \in Units :
        LET r == unit[u]
        IN  /\ \A i \in 1..Len(r.urls) : Len(ProductRepliesFor(r, i)) <= 1
            /\ \A k \in 1..Len(r.consults) :
                   r.consults[k].found
                       => \A k2 \in (k + 1)..Len(r.consults) :
                              r.consults[k2].i # r.consults[k].i

\* a URL both handlers can handle got its product from the first handler,
\* was answered once, and the second handler was never asked about it
C11_Witness ==
    \E u \in Units :
        /\ Processed(unit[u], 1)
        /\ AliCanHandle(unit[u].urls[1]) /\ AmazonCanHandle(unit[u].urls[1])
        /\ Len(ConsultsFor(unit[u], 1)) = 1
        /\ ConsultsFor(unit[u], 1)[1].h = 1
        /\ ConsultsFor(unit[u], 1)[1].found
        /\ Len(ProductRepliesFor(unit[u], 1)) = 1

\* a unit that is inside process_link_handlers, past the extraction
InsideLoop(r) == r.pc \notin {"idle", "process", "done"}

NonDecreasing(idx) == \A a, b \in 1..Len(idx) : a <= b => idx[a] <= idx[b]

\* what holds of every state of a pass: the extracted URLs are the matches
\* in their order of appearance, repeated ones included; replies and
\* lookups are logged in that order and none is ahead of the loop; each
\* lookup, link and raw reply is about the URL at the loop's position; and
\* at the end every occurrence a handler can handle has been looked up
InOrderState(r) ==
    /\ InsideLoop(r) => r.urls = FindAllUrls(r.update[1].text[1])
    /\ NonDecreasing([k \in 1..Len(r.replies) |-> r.replies[k].i])
    /\ NonDecreasing([k \in 1..Len(r.consults) |-> r.consults[k].i])
    /\ \A k \in 1..Len(r.replies) : r.replies[k].i <= r.i
    /\ \A k \in 1..Len(r.consults) : r.consults[k].i <= r.i
    /\ \A k \in 1..Len(r.replies) :
           r.replies[k].msg.parse_mode = None
               => r.replies[k].msg = RawReply(r.urls[r.replies[k].i])
    /\ r.pc = "ali_call"
           => extract_product_id(r.urls[r.i]) = Param(r.call[1].params, K_productId)
    /\ r.pc = "amazon_call"
           => extract_asin(r.urls[r.i]) = Some(r.call[1].asin)
    /\ (r.pc = "shorten_call" /\ LastFound(r).h = 1)
           => IsPrefixAt(r.urls[r.i], r.call[1].url, 1)
    /\ (r.pc = "shorten_call" /\ LastFound(r).h = 2)
           => Contains(r.call[1].url, extract_asin(r.urls[r.i])[1])
    /\ (r.pc = "done" /\ r.excluded = Some(FALSE))
           => \A i \in 1..Len(r.urls) :
                  ~NoHandlerMatches(r.urls[i]) => Len(ConsultsFor(r, i)) >= 1

\* what holds of every step of a pass: the loop never goes back, and a
\* reply sent in the step is a reply for the URL the loop is at, so that
\* when the loop reaches URL i+1 and calls a vendor for it, every reply for
\* URL i has been sent
InOrderStep(r, r2) ==
    InsideLoop(r) =>
        /\ r2.i >= r.i
        /\ r2.urls = r.urls
        /\ Len(r2.replies) > Len(r.replies)
               => /\ Len(r2.replies) = Len(r.replies) + 1
                  /\ r2.replies[Len(r2.replies)].i = r.i
        /\ (r2.pc \in {"ali_call", "amazon_call"} /\ r.pc = "loop")
               => /\ r2.i = r.i
                  /\ r2.replies = r.replies

\* C12: the URLs of one message are processed strictly in their order of
\* appearance in the text, all replies for URL i are sent before any vendor
\* call for URL i+1 starts, and a URL that appears k times in the message
\* is processed k times, once per occurrence.
C12_InOrderNoDedup ==
    /\ [](\A u \in Units : InOrderState(unit[u]))
    /\ [][\A u \in Units : InOrderStep(unit[u], unit'[u])]_vars

\* what get_product_info made of the outcome logged in consult c
ParseOf(c) == IF c.h = 1 THEN AliParse(c.outcome) ELSE AmazonParse(c.outcome)

\* The replies a message gets when it is processed alone under the
\* configuration cfg: a function of its own URLs, of the vendor responses
\* it received (r.consults), of the shortener responses it received
\* (r.shorts) and of the way its reply calls ended (the outcome of
\* r.sends[k], the reply call that follows lookup k), each in the order
\* received.  answered[k] counts the products among the first k lookups; a
\* product whose shortener call is still pending has no reply yet, and a
\* reply call that is still awaited or that raised sent nothing.
RepliesAlone(r, cfg) ==
    LET n == Len(r.consults)
        answered[k \in 0..n] ==
            IF k = 0 THEN 0
            ELSE answered[k - 1] + (IF ParseOf(r.consults[k]) # None THEN 1 ELSE 0)
        out[k \in 0..n] ==
            IF k = 0 THEN << >>
            ELSE LET c == r.consults[k]
                     url == r.urls[c.i]
                 IN  IF ParseOf(c) # None /\ answered[k] > Len(r.shorts)
                     THEN out[k - 1]
                     ELSE IF r.sends[k].outcome # "sent" THEN out[k - 1]
                     ELSE IF ParseOf(c) = None
                     THEN Append(out[k - 1], [i |-> c.i, msg |-> RawReply(url)])
                     ELSE Append(out[k - 1],
                            [i |-> c.i,
                             msg |-> ProductReply(ParseOf(c)[1],
                                       shorten_url(CreateAffiliateLink(c.h, cfg, url),
                                                   r.shorts[answered[k]]))])
    IN  out[n]

\* The lookups a message causes when it is processed alone, once it is
\* finished with every reply call completed: handler h is asked about URL i
\* exactly when it can handle the URL and no earlier handler returned a
\* product for it
LookupsAlone(r) ==
    \A i \in 1..Len(r.urls), h \in 1..NumHandlers :
        (\E k \in 1..Len(r.consults) : r.consults[k].i = i /\ r.consults[k].h = h)
            <=> /\ CanHandle(h, r.urls[i])
                /\ \A k \in 1..Len(r.consults) :
                       (r.consults[k].i = i /\ r.consults[k].h < h)
                           => ParseOf(r.consults[k]) = None

\* no reload fell between the configuration reads of the pass
SingleVersion(r) == \A a, b \in 1..Len(r.reads) : r.reads[a][2] = r.reads[b][2]

IndependentState(r) ==
    (r.reads # << >> /\ SingleVersion(r)) =>
        LET cfg == ConfigOf(r.reads[1][2])
        IN  /\ r.excluded = Some(is_user_excluded(cfg, r.update[1].user[1]))
            /\ r.replies = RepliesAlone(r, cfg)
            /\ (r.pc = "done" /\ r.excluded = Some(FALSE) /\ ~r.raised)
                   => LookupsAlone(r)
            /\ \A k \in 1..Len(r.sends) :
                   /\ r.sends[k].outcome = "pending"
                          => (k = Len(r.sends)
                              /\ r.pc \in {"reply_raw", "reply_product"})
                   /\ r.sends[k].outcome = "error"
                          => (k = Len(r.sends) /\ r.pc = "done" /\ r.raised)
            /\ r.excluded = Some(TRUE) => r.consults = << >>

\* a step of a processing unit writes nothing but that unit's own state,
\* and a step that writes the configuration is no step of a unit
IndependentStep ==
    /\ \A u \in Units :
           unit'[u] # unit[u]
               => /\ config_manager' = config_manager
                  /\ loads' = loads
                  /\ timers' = timers
                  /\ reload_thread' = reload_thread
                  /\ \A v \in Units \ {u} : unit'[v] = unit[v]
    /\ config_manager' # config_manager => unit' = unit

\* C13: message processing never writes the shared configuration or any
\* other state shared between units (only the reload task writes the
\* configuration), so under every interleaving of concurrently processed
\* messages, with no reload in between and the same external responses,
\* each message gets exactly the replies it would get if processed alone.
C13_UnitsIndependent ==
    /\ [](\A u \in Units : IndependentState(unit[u]))
    /\ [][IndependentStep]_vars

\* two messages in flight at once, each after its product lookup and
\* before its reply, and the two products differ
C13_Witness ==
    \E u, v \in Units :
        /\ u # v
        /\ unit[u].pc = "shorten_call" /\ unit[v].pc = "shorten_call"
        /\ unit[u].product # unit[v].product
        /\ SingleVersion(unit[u]) /\ SingleVersion(unit[v])

\* C14: after startup every reload attempt, whether it succeeds or fails,
\* is followed by another attempt one interval later: once the startup
\* thread has made the first attempt, a timer for the next attempt is
\* pending after every attempt, so the reloads never cease.
C14_ReloadRecurs == reload_thread # "ready" => timers >= 1

\* C18: in every reachable state at most one reload timer is pending; each
\* run of reload_config_periodically starts at most one new timer, and only
\* a fired timer or the single startup thread runs it (a run by a timer
\* uses that timer up, the startup thread runs once).
C18_SingleReloadChain ==
    /\ [](timers <= 1)
    /\ [](reload_thread = "ready" => (timers = 0 /\ loads = 0))
    /\ [][/\ timers' <= timers + 1
          /\ timers' > timers => (reload_thread = "ready" /\ reload_thread' = "finished")
          /\ (loads' # loads /\ reload_thread' = reload_thread) => timers = 1
          /\ reload_thread # "ready" => reload_thread' = reload_thread]_vars

\* the startup thread has run, its timer has fired and reloaded, and the
\* timer started by that run is the one pending
C18_Witness == reload_thread = "finished" /\ loads = 2 /\ timers = 1

\* the digest input the claim describes for the three request parameters:
\* secret, api_path, then app_key, productId and timestamp -- the ascending
\* order of these keys -- each key immediately followed by its value, secret
SignedInput(secret, api_path, params) ==
    PyStr(secret) \o api_path
    \o K_app_key \o PyStr(Param(params, K_app_key))
    \o K_productId \o PyStr(Param(params, K_productId))
    \o K_timestamp \o PyStr(Param(params, K_timestamp))
    \o PyStr(secret)

\* C15: the AliExpress signature is the digest of secret ++ api_path ++
\* key immediately followed by value for every parameter in ascending key
\* order ++ secret; it depends only on the secret, the path and the set of
\* key/value pairs, not on the order of insertion; 'sign' is added only
\* after signing and is not part of the signed input; the request sent
\* carries exactly app_key, productId, timestamp and sign.
C15_RequestSigning ==
    (probe # None /\ probe[1].out # None) =>
        LET pr == probe[1]
            out == pr.out[1]
        IN  IF pr.kind = "sign"
            THEN out = MD5Hex(SignedInput(pr.handler.secret, pr.api_path, pr.params))
            ELSE /\ Len(out.params) = 4
                 /\ {out.params[n][1] : n \in 1..4}
                        = {K_app_key, K_productId, K_timestamp, K_sign}
                 /\ Param(out.params, K_app_key) = pr.handler.api_key
                 /\ Param(out.params, K_productId) = Some(pr.product_id)
                 /\ Param(out.params, K_timestamp) = Some(pr.now)
                 /\ Param(out.params, K_sign)
                        = Some(MD5Hex(SignedInput(pr.handler.secret, AliApiPath,
                                                  out.params)))

\* a dict filled in the order timestamp, productId, app_key was signed
C15_Witness ==
    /\ probe # None
    /\ probe[1].kind = "sign"
    /\ probe[1].out # None
    /\ probe[1].params[1][1] = K_timestamp
    /\ probe[1].params[2][1] = K_productId
    /\ probe[1].params[3][1] = K_app_key
    /\ probe[1].out[1] = MD5Hex(SignedInput(probe[1].handler.secret,
                                            probe[1].api_path, probe[1].params))

\* the lookups for URL number i that returned a product
FoundFor(r, i) == SelectSeq(r.consults, LAMBDA c : c.i = i /\ c.found)

\* a reply in the form the product calls for: an image reply carrying the
\* image URL when the product has one, a plain text reply otherwise
HasReplyForm(msg, product) ==
    IF product.image_url # None /\ product.image_url[1] # << >>
    THEN msg.kind = "photo" /\ msg.photo = product.image_url
    ELSE msg.kind = "text" /\ msg.photo = None

\* C16: for every URL for which a product was found exactly one reply is
\* sent; it is an image reply with the composed text as caption if and only
\* if the ProductInfo has an image URL, a plain text reply otherwise, and
\* the composed text ends with the link returned by the shortener.
C16_ReplyForm ==
    \A u \in Units :
        LET r == unit[u]
        IN  \A i \in 1..Len(r.urls) :
                (Processed(r, i) /\ Len(FoundFor(r, i)) > 0)
                    => /\ Len(RepliesFor(r, i)) = 1
                       /\ HasReplyForm(RepliesFor(r, i)[1].msg,
                                        ParseOf(FoundFor(r, i)[1])[1])
                       /\ i = LastFoundIndex(r)
                              => EndsWith(RepliesFor(r, i)[1].msg.text,
                                          <<"U+1F517", " ">> \o r.short_link[1])

NumFound(r) == Cardinality({k \in 1..Len(r.consults) : r.consults[k].found})

\* the reply calls made with a product reply, for URL number i and in all
ProductSendsFor(r, i) == SelectSeq(r.sends, LAMBDA e : IsProductReplyFor(e, i))

NumProductReplies(r) ==
    Cardinality({k \in 1..Len(r.sends) : r.sends[k].msg.parse_mode # None})

\* the affiliate link of handler h for url, from configuration versions
\* that have been loaded so far
IsAffiliateLinkOf(link, h, url) ==
    IF h = 1
    THEN \E n \in 0..loads :
             link = url \o <<"?","a","f","f","_","i","d","=">>
                    \o <<"f", DigitChar(n)>>
    ELSE \E n, m \in 0..loads :
             link = <<"h","t","t","p","s",":","/","/","w","w","w",".",
                      "a","m","a","z","o","n",".">>
                    \o <<"e", DigitChar(n)>> \o <<"/","d","p","/">>
                    \o PyStr(extract_asin(url))
                    \o <<"?","t","a","g","=">> \o <<"t", DigitChar(m)>>

\* The order of the steps for the URL occurrence a unit is at, read off its
\* position: a vendor lookup is under way only for a handler whose
\* can_handle is true and before any product was found for the URL; the
\* link is created only after this handler's lookup returned a product; the
\* shortener is called only after that, with the link this handler
\* created, and before the product reply; the shortener has been called
\* once per product found, and a raw-URL reply never goes with a call.
\* The replies counted are the reply calls made (r.sends).
CallOrder(r) ==
    /\ r.pc \in {"ali_call", "amazon_call"}
           => /\ CanHandle(r.h, r.urls[r.i])
              /\ r.call[1].to = (IF r.h = 1 THEN "aliexpress" ELSE "amazon")
              /\ Len(FoundFor(r, r.i)) = 0
    /\ r.pc = "amazon_link"
           => /\ LastFound(r).i = r.i /\ LastFound(r).h = r.h /\ r.h = 2
              /\ r.call = None /\ r.affiliate_link = None
              /\ Len(ProductSendsFor(r, r.i)) = 0
    /\ r.pc = "shorten_call"
           => /\ LastFound(r).i = r.i /\ LastFound(r).h = r.h
              /\ CanHandle(r.h, r.urls[r.i])
              /\ r.call[1].to = "tinyurl"
              /\ r.call[1].url = r.affiliate_link[1]
              /\ IsAffiliateLinkOf(r.call[1].url, r.h, r.urls[r.i])
              /\ Len(ProductSendsFor(r, r.i)) = 0
    /\ NumFound(r) = Len(r.shorts)
                       + (IF r.pc \in {"amazon_link", "shorten_call"} THEN 1 ELSE 0)
    /\ NumProductReplies(r) = Len(r.shorts)
    /\ Len(r.sends) - NumProductReplies(r) = Len(r.consults) - NumFound(r)
    /\ \A i \in 1..Len(r.urls) : Len(FoundFor(r, i)) <= 1

\* C17 (as claimed): per URL occurrence the steps happen in the order
\* can_handle, get_product_info, create_affiliate_link, shorten_url, reply;
\* the shortener is called only for a URL for which a product was found,
\* exactly once for it, always with the affiliate link produced by the
\* handler that returned the product, never with the raw URL and never for
\* a raw-URL fallback reply.
C17_ShortenerNeverRaw ==
    \A u \in Units :
        /\ CallOrder(unit[u])
        /\ unit[u].pc = "shorten_call"
               => unit[u].call[1].url # unit[u].urls[unit[u].i]

\* C17 (amended): the same order and the same count; the shortener is
\* always called with the link create_affiliate_link of the handler that
\* returned the product gave for the URL.  For AliExpress that link is never
\* the raw URL; for Amazon it is the raw URL exactly when the URL in the
\* message already is the link https://www.amazon.<country>/dp/<ASIN>?tag=<tag>
\* of the configuration read.
C17_ShortenerGetsAffiliateLink ==
    \A u \in Units :
        /\ CallOrder(unit[u])
        /\ unit[u].pc = "shorten_call"
               => LET r == unit[u]
                  IN  /\ r.h = 1 => r.call[1].url # r.urls[r.i]
                      /\ r.call[1].url = r.urls[r.i]
                             => /\ r.h = 2
                                /\ IsAffiliateLinkOf(r.urls[r.i], 2, r.urls[r.i])

\* a message held the Amazon affiliate link of the current configuration:
\* the product was found and the shortener is called with that same link
C17_Witness ==
    \E u \in Units :
        /\ unit[u].pc = "shorten_call"
        /\ unit[u].h = 2
        /\ LastFound(unit[u]).h = 2
        /\ unit[u].call[1].url = unit[u].urls[unit[u].i]
        /\ unit[u].call[1].url = unit[u].affiliate_link[1]

====
